---- MODULE Spec2Model ----
(***************************************************************************)
(* State-machine model of the VSC DEX contracts:                           *)
(*   - the single-pair AMM pool contract (v2-amm: init, add_liquidity,     *)
(*     remove_liquidity, swap, donate, claim_fees, burn, transfer,         *)
(*     si_withdraw, set_base_fee, set_slip_params);                        *)
(*   - the unified dex-router contract (init, create_pool, execute,        *)
(*     claim_fees).                                                        *)
(* Unsigned machine words are modelled modulo Word.  The contracts use     *)
(* 64-bit words; the model keeps the wrap-around semantics at a narrower   *)
(* width so that the checker's integers can hold every intermediate value. *)
(* A panic (failed assert, division by zero, failed host transfer) traps   *)
(* the call: the host discards the call's writes, so the contract state is *)
(* unchanged.  A returned error string is an ordinary return: writes made  *)
(* before it stay.                                                         *)
(***************************************************************************)
EXTENDS Integers, Sequences, FiniteSets, TLC

\* ------------------------------------------------------------------ bounds
WordBits == 20
MaxReserve == 3
MaxAmt == 2
MaxPools == 2
MaxRouterReserve == 2
MaxDirectReserve == 3
MaxFeeBucket == 1
MaxServiceReserve == 30000
DefaultReserveUnit == 10000
MaxTradeReserve == 250
HighFeeBps == 2000

Word == 2 ^ WordBits

\* ------------------------------------------------------- program constants
BpsDenom == 10000
defaultBaseFeeBps == 8
defaultSlipBaselineBps == 0
defaultSlipShareBps == 0
MaxRefBps == 1000
MaxBaseFeeBps == 10000
MaxSwapPercent == 50
ServiceDefaultFeeBps == 8
DefaultReserveBtc == 100000000
DefaultReserveHbd == 10000000

\* ------------------------------------------------------ machine arithmetic
ToWord(x) == x % Word

AddW(a, b) == (a + b) % Word

SubW(a, b) == (a - b) % Word

\* a * b modulo Word; operands too wide for a direct product are multiplied
\* by doubling
RECURSIVE MulWide(_, _)
MulWide(a, b) ==
  IF b = 0 THEN 0
  ELSE (2 * MulWide(a, b \div 2) + (b % 2) * a) % Word

MulW(a, b) ==
  IF a < 32768 /\ b < 32768 THEN (a * b) % Word ELSE MulWide(a, b)

\* int64(x): the signed reading of a machine word
Signed(x) == IF x >= Word \div 2 THEN x - Word ELSE x

\* the larger of the two
max64(a, b) == IF a < b THEN b ELSE a

min64(a, b) == IF a < b THEN a ELSE b

\* binary search of sqrt128: largest mid in 0 .. Word/2-1 with mid*mid <= n,
\* n being the exact double-width product
RECURSIVE sqrtSearch(_, _, _, _)
sqrtSearch(n, low, high, ans) ==
  IF low > high THEN ans
  ELSE LET mid == (low + high) \div 2
       IN IF mid = 0 \/ mid <= n \div mid
          THEN sqrtSearch(n, mid + 1, high, mid)
          ELSE sqrtSearch(n, low, mid - 1, ans)

sqrt128(n) == sqrtSearch(n, 0, Word \div 2 - 1, 0)

\* ------------------------------------------------------------------- state
Accounts == {"hive:alice", "hive:bob", "system:consensus"}
Users == {"hive:alice", "hive:bob"}
PairAssets == {"hbd", "hive"}
AssetHbd == "hbd"

VARIABLES
  pool,    \* single-pair contract: pool/* keys
  lps,     \* single-pair contract: lps/<address> balances
  bank,    \* single-pair contract: assets held by the contract
  last,    \* single-pair contract: the last call and its outcome
  nextPoolId, \* dex-router: next_pool_id
  pools,   \* dex-router: pool/{id}/* records
  poolLp,  \* dex-router: pool/{id}/lp/{address} balances
  rbank,   \* dex-router: assets held by the contract
  rlast,   \* dex-router: the last call and what it returned
  poolQuerier, \* router service: the PoolQuerier set on the service
  svcLast, \* router service: the last request, its result and its hops
  parsed   \* instruction schemas: the last parse call, its memo and its result

pvars == <<pool, lps, bank, last>>

rvars == <<nextPoolId, pools, poolLp, rbank, rlast>>

svars == <<poolQuerier, svcLast>>

ivars == <<parsed>>

vars ==
  <<pool, lps, bank, last, nextPoolId, pools, poolLp, rbank, rlast,
    poolQuerier, svcLast, parsed>>

\* every caller passes for the system
isAnySender(sender) == TRUE

isSystemSender(sender) == sender = "system:consensus"

isHbd(a) == a = AssetHbd

EmptyPool ==
  [asset0 |-> "", asset1 |-> "", baseFeeBps |-> 0,
   slipBaselineBps |-> 0, slipShareBps |-> 0, totalLP |-> 0,
   reserve0 |-> 0, reserve1 |-> 0, fee0 |-> 0, fee1 |-> 0]

\* outcome of a call: the entry point and whether it ran to completion
Call(op, ok) == [op |-> op, ok |-> ok, args |-> <<>>]

\* outcome of a swap, with the payload it was called with where that is kept:
\* <<dir, amountIn, minOut, hasRef, refBps>>
SwapCall(ok, payload) == [op |-> "swap", ok |-> ok, args |-> payload]

\* a trapped call: contract state as before, only the outcome is recorded
Trap(op) ==
  /\ last' = Call(op, FALSE)
  /\ UNCHANGED <<pool, lps, bank>>

\* HiveDraw: pull amount of asset from the caller into the contract
drawAsset(b, amount, asset) == [b EXCEPT ![asset] = @ + amount]

\* HiveTransfer / HiveWithdraw: pay amount of asset out of the contract
transferAsset(b, amount, asset) == [b EXCEPT ![asset] = @ - amount]

CanPay(b) == \A a \in DOMAIN b : b[a] >= 0

PairInitState ==
  /\ pool = EmptyPool
  /\ lps = [a \in Accounts |-> 0]
  /\ bank = [a \in PairAssets |-> 0]
  /\ last = Call("none", TRUE)

\* ------------------------------------------------- single-pair: init
InitFees == {-1, MaxBaseFeeBps}

PoolInit(sender, a0, a1, feeArg) ==
  /\ pool' = [EmptyPool EXCEPT
                !.asset0 = a0, !.asset1 = a1,
                !.baseFeeBps = IF feeArg < 0 THEN defaultBaseFeeBps ELSE feeArg,
                !.slipBaselineBps = defaultSlipBaselineBps,
                !.slipShareBps = defaultSlipShareBps]
  /\ last' = Call("init", TRUE)
  /\ UNCHANGED <<lps, bank>>

\* ------------------------------------------------- single-pair: liquidity
AddLiquidityCalc(amt0U, amt1U) ==
  LET r0 == pool.reserve0
      r1 == pool.reserve1
      totalLP == pool.totalLP
      divZero == totalLP # 0 /\ (r0 = 0 \/ r1 = 0)
      minted == IF totalLP = 0 THEN sqrt128(amt0U * amt1U)
                ELSE IF divZero THEN 0
                ELSE min64(MulW(amt0U, totalLP) \div r0,
                           MulW(amt1U, totalLP) \div r1)
  IN [ok |-> ~divZero /\ minted > 0,
      minted |-> minted,
      totalLP |-> AddW(totalLP, minted),
      reserve0 |-> AddW(r0, amt0U),
      reserve1 |-> AddW(r1, amt1U)]

AddLiquidity(sender, amt0U, amt1U) ==
  LET c == AddLiquidityCalc(amt0U, amt1U)
      drawn == IF pool.asset0 \in PairAssets /\ pool.asset1 \in PairAssets
               THEN drawAsset(drawAsset(bank, amt0U, pool.asset0),
                              amt1U, pool.asset1)
               ELSE bank
  IN IF pool.asset0 \in PairAssets /\ pool.asset1 \in PairAssets /\ c.ok
     THEN /\ lps' = [lps EXCEPT ![sender] =
                       IF pool.totalLP = 0 THEN c.minted
                       ELSE AddW(lps[sender], c.minted)]
          /\ pool' = [pool EXCEPT !.totalLP = c.totalLP,
                                  !.reserve0 = c.reserve0,
                                  !.reserve1 = c.reserve1]
          /\ bank' = drawn
          /\ last' = Call("add_liquidity", TRUE)
     ELSE Trap("add_liquidity")

\* proportional payout shared by remove_liquidity and si_withdraw
WithdrawCalc(lpAmount) ==
  LET r0 == pool.reserve0
      r1 == pool.reserve1
      totalLP == pool.totalLP
      amt0 == MulW(r0, lpAmount) \div totalLP
      amt1 == MulW(r1, lpAmount) \div totalLP
  IN [amt0 |-> amt0, amt1 |-> amt1,
      totalLP |-> SubW(totalLP, lpAmount),
      reserve0 |-> SubW(r0, amt0),
      reserve1 |-> SubW(r1, amt1)]

\* assert(lpToBurnU > 0 && lpToBurnU <= userLP && totalLP > 0)
WithdrawAsserted(addr, lpAmount) ==
  lpAmount > 0 /\ lpAmount <= lps[addr] /\ pool.totalLP > 0

\* "book-keep first": the claim balance, the total and both reserves as the
\* four writes leave them
BookKeptLps(addr, lpAmount) == [lps EXCEPT ![addr] = lps[addr] - lpAmount]

BookKeptPool(c) ==
  [pool EXCEPT !.totalLP = c.totalLP,
               !.reserve0 = c.reserve0,
               !.reserve1 = c.reserve1]

\* "transfer out": the holdings b after the transfer of asset0, of asset1
PaidOut0(b, amt0) ==
  IF Signed(amt0) > 0 THEN transferAsset(b, amt0, pool.asset0) ELSE b

PaidOut1(b, amt1) ==
  IF Signed(amt1) > 0 THEN transferAsset(b, amt1, pool.asset1) ELSE b

\* the writes and transfers of remove_liquidity / si_withdraw for account addr
Withdraw(op, sender, addr, lpAmount) ==
  IF WithdrawAsserted(addr, lpAmount)
  THEN LET c == WithdrawCalc(lpAmount)
           paid == PaidOut1(PaidOut0(bank, c.amt0), c.amt1)
       IN IF CanPay(paid)
          THEN /\ lps' = BookKeptLps(addr, lpAmount)
               /\ pool' = BookKeptPool(c)
               /\ bank' = paid
               /\ last' = Call(op, TRUE)
          ELSE Trap(op)
  ELSE Trap(op)

RemoveLiquidity(sender, lpToBurnU) ==
  Withdraw("remove_liquidity", sender, sender, lpToBurnU)

SIWithdraw(sender, addr, amt) ==
  IF isSystemSender(sender)
  THEN Withdraw("si_withdraw", sender, addr, amt)
  ELSE Trap("si_withdraw")

\* ----------------------------- single-pair: remove_liquidity, step by step
\* RemoveLiquidity taken one statement group at a time.  While the call is
\* between its writes and its return, `last` holds its frame:
\* <<position, sender, lpToBurn, amt0, amt1, nested, saved>>, position being
\* the transfer that comes next, nested the claims burned by calls made back
\* into the contract from a transfer, and saved the <<pool, lps, bank>> a trap
\* restores.
Frame(position, sender, lp, amt0, amt1, nested, saved) ==
  [op |-> "remove_liquidity", ok |-> FALSE,
   args |-> <<position, sender, lp, amt0, amt1, nested, saved>>]

InTransfer == last.op = "remove_liquidity" /\ last.args # <<>>

\* the call enters its transfers with nothing written
RemoveKeepNothing(sender, lpToBurnU) ==
  IF WithdrawAsserted(sender, lpToBurnU)
  THEN LET c == WithdrawCalc(lpToBurnU)
       IN /\ last' = Frame("transfer0", sender, lpToBurnU, c.amt0, c.amt1, 0,
                           <<pool, lps, bank>>)
          /\ UNCHANGED <<pool, lps, bank>>
  ELSE Trap("remove_liquidity")

\* the assert, the amounts and the four writes ("book-keep first")
RemoveBookKeep(sender, lpToBurnU) ==
  IF WithdrawAsserted(sender, lpToBurnU)
  THEN LET c == WithdrawCalc(lpToBurnU)
       IN /\ lps' = BookKeptLps(sender, lpToBurnU)
          /\ pool' = BookKeptPool(c)
          /\ last' = Frame("transfer0", sender, lpToBurnU, c.amt0, c.amt1, 0,
                           <<pool, lps, bank>>)
          /\ UNCHANGED bank
  ELSE Trap("remove_liquidity")

\* a transfer the host refuses traps the call: every write is discarded
RemoveTrapped ==
  /\ pool' = last.args[7][1]
  /\ lps' = last.args[7][2]
  /\ bank' = last.args[7][3]
  /\ last' = Call("remove_liquidity", FALSE)

\* if amt0 > 0 { transferAsset(sender, amt0, asset0) }
RemoveTransfer0 ==
  LET f == last.args
      paid == PaidOut0(bank, f[4])
  IN IF CanPay(paid)
     THEN /\ bank' = paid
          /\ last' = Frame("transfer1", f[2], f[3], f[4], f[5], f[6], f[7])
          /\ UNCHANGED <<pool, lps>>
     ELSE RemoveTrapped

\* if amt1 > 0 { transferAsset(sender, amt1, asset1) }; return nil
RemoveTransfer1 ==
  LET f == last.args
      paid == PaidOut1(bank, f[5])
  IN IF CanPay(paid)
     THEN /\ bank' = paid
          /\ last' = Call("remove_liquidity", TRUE)
          /\ UNCHANGED <<pool, lps>>
     ELSE RemoveTrapped

\* the receiver of the transfer in progress calls remove_liquidity again, for
\* lpAgain claims, before the transfer returns; a nested call that traps
\* leaves the state as the outer call had it
RemoveReentered(lpAgain) ==
  LET f == last.args
      c == WithdrawCalc(lpAgain)
      paid == PaidOut1(PaidOut0(bank, c.amt0), c.amt1)
  IN IF WithdrawAsserted(f[2], lpAgain) /\ CanPay(paid)
     THEN /\ lps' = BookKeptLps(f[2], lpAgain)
          /\ pool' = BookKeptPool(c)
          /\ bank' = paid
          /\ last' = Frame(f[1], f[2], f[3], f[4], f[5], f[6] + lpAgain, f[7])
     ELSE UNCHANGED <<pool, lps, bank, last>>

\* ------------------------------------------------- single-pair: swap
\* dyNominal := (r1 * dxEff) / r0: the output at the price before the swap
SlipNominal(dxEff, rIn, rOut) == MulW(rOut, dxEff) \div rIn

\* slipBps := (dyNominal - uint64(dy)) * 10_000 / dyNominal
SlipBps(out, nominal) == MulW(SubW(nominal, out), BpsDenom) \div nominal

\* slippage-adjusted extra fee withheld from the output `out` of a swap that
\* moved dxEff into reserve rIn against reserve rOut
SlipExtra(out, dxEff, rIn, rOut) ==
  IF pool.slipShareBps > 0
  THEN LET nominal == SlipNominal(dxEff, rIn, rOut)
       IN IF nominal > 0
          THEN LET slipBps == SlipBps(out, nominal)
               IN IF slipBps > pool.slipBaselineBps
                  THEN LET excess == slipBps - pool.slipBaselineBps
                           outExtra == (MulW(MulW(out, excess), pool.slipShareBps)
                                          \div BpsDenom) \div BpsDenom
                       IN IF outExtra >= out THEN SubW(out, 1) ELSE outExtra
                  ELSE 0
          ELSE 0
  ELSE 0

\* a referral accepted whatever its refBps
RefBpsAny(hasRef, refBpsU) == TRUE

\* the referral bound of the 4- and 5-part payloads
RefBpsOk(hasRef, refBpsU) ==
  hasRef => (refBpsU >= 1 /\ refBpsU <= MaxRefBps)

\* a minimum output that is never looked at
MinOutIgnored(out, minOutU) == TRUE

\* assert(dyUser >= minOutU), assert(dxUserNet >= minOutU)
MinOutOk(out, minOutU) == out >= minOutU

\* dir = "0to1": input asset0, output asset1
Swap0to1Calc(amountInU, minOutU, refBpsU) ==
  LET r0 == pool.reserve0
      r1 == pool.reserve1
      feeBps == pool.baseFeeBps
      dxFee == IF isHbd(pool.asset0) /\ feeBps > 0
               THEN MulW(amountInU, SubW(BpsDenom, feeBps)) \div BpsDenom
               ELSE amountInU
      dxEff == IF dxFee <= 0 THEN 1 ELSE dxFee
      k == MulW(r0, r1)
      newX == AddW(r0, dxEff)
      dy == IF newX > 0 THEN SubW(r1, k \div newX) ELSE 0
      dyUser == SubW(dy, SlipExtra(dy, dxEff, r0, r1))
      fee == IF isHbd(pool.asset0) THEN SubW(amountInU, dxEff) ELSE 0
      refOut == IF fee > 0 /\ refBpsU > 0
                THEN MulW(fee, refBpsU) \div BpsDenom ELSE 0
      feeRemain == Signed(SubW(fee, refOut))
  IN [ok |-> newX > 0 /\ k > 0 /\ dy > 0 /\ dy < r1 /\ MinOutOk(dyUser, minOutU),
      dxEff |-> dxEff, gross |-> dy, total |-> dyUser, user |-> dyUser,
      refOut |-> refOut,
      reserve0 |-> AddW(r0, dxEff),
      reserve1 |-> SubW(r1, dyUser),
      fee0 |-> IF fee > 0 /\ feeRemain > 0
               THEN pool.fee0 + feeRemain ELSE pool.fee0]

\* dir = "1to0": input asset1, output asset0
Swap1to0Calc(amountInU, minOutU, refBpsU) ==
  LET r0 == pool.reserve0
      r1 == pool.reserve1
      dxEff == amountInU
      k == MulW(r0, r1)
      newY == AddW(r1, dxEff)
      dxOut == IF newY > 0 THEN SubW(r0, k \div newY) ELSE 0
      dxUserTotal == SubW(dxOut, SlipExtra(dxOut, dxEff, r1, r0))
      refRaw == IF refBpsU > 0
                THEN MulW(dxUserTotal, refBpsU) \div BpsDenom ELSE 0
      refOut == IF refBpsU > 0 /\ refRaw >= dxUserTotal
                THEN SubW(dxUserTotal, 1) ELSE refRaw
      dxUserNet == SubW(dxUserTotal, refOut)
  IN [ok |-> newY > 0 /\ k > 0 /\ dxOut > 0 /\ dxOut < r0
             /\ MinOutOk(dxUserNet, minOutU),
      dxEff |-> dxEff, gross |-> dxOut, total |-> dxUserTotal,
      user |-> dxUserNet, refOut |-> refOut,
      reserve0 |-> SubW(r0, dxUserTotal),
      reserve1 |-> AddW(r1, dxEff),
      fee0 |-> pool.fee0]

\* the payload and pool checks made before the direction is looked at
SwapParsed(dir, amountInU, hasRef, refBpsU) ==
  /\ RefBpsOk(hasRef, refBpsU)
  /\ amountInU > 0
  /\ pool.reserve0 > 0 /\ pool.reserve1 > 0
  /\ dir \in {"0to1", "1to0"}
  /\ pool.asset0 \in PairAssets /\ pool.asset1 \in PairAssets

SwapCalc(dir, amountInU, minOutU, refBpsU) ==
  IF dir = "0to1" THEN Swap0to1Calc(amountInU, minOutU, refBpsU)
  ELSE Swap1to0Calc(amountInU, minOutU, refBpsU)

\* the contract's holdings after the draw and the transfers of a swap; the
\* referral is always paid in asset0
SwapPaid(dir, amountInU, refOut, user) ==
  LET inAsset == IF dir = "0to1" THEN pool.asset0 ELSE pool.asset1
      outAsset == IF dir = "0to1" THEN pool.asset1 ELSE pool.asset0
      b1 == drawAsset(bank, amountInU, inAsset)
      b2 == IF refOut > 0 THEN transferAsset(b1, refOut, pool.asset0) ELSE b1
  IN transferAsset(b2, user, outAsset)

\* the swap runs to completion
SwapCompletes(dir, amountInU, hasRef, refBpsU, c) ==
  /\ SwapParsed(dir, amountInU, hasRef, refBpsU)
  /\ c.ok
  /\ CanPay(SwapPaid(dir, amountInU, c.refOut, c.user))

SwapCommit(dir, amountInU, c, payload) ==
  /\ pool' = [pool EXCEPT !.reserve0 = c.reserve0,
                          !.reserve1 = c.reserve1,
                          !.fee0 = c.fee0]
  /\ bank' = SwapPaid(dir, amountInU, c.refOut, c.user)
  /\ last' = SwapCall(TRUE, payload)
  /\ UNCHANGED lps

SwapWith(dir, amountInU, hasRef, refBpsU, c, payload) ==
  IF SwapCompletes(dir, amountInU, hasRef, refBpsU, c)
  THEN SwapCommit(dir, amountInU, c, payload)
  ELSE /\ last' = SwapCall(FALSE, payload)
       /\ UNCHANGED <<pool, lps, bank>>

\* hasRef: the payload carries beneficiary and refBps (4- or 5-part form)
Swap(sender, dir, amountInU, minOutU, hasRef, refBpsArg) ==
  SwapWith(dir, amountInU, hasRef, IF hasRef THEN refBpsArg ELSE 0,
    SwapCalc(dir, amountInU, minOutU, IF hasRef THEN refBpsArg ELSE 0),
    <<>>)

\* Swap, the outcome keeping the payload of the call
SwapLogged(sender, dir, amountInU, minOutU, hasRef, refBpsArg) ==
  SwapWith(dir, amountInU, hasRef, IF hasRef THEN refBpsArg ELSE 0,
    SwapCalc(dir, amountInU, minOutU, IF hasRef THEN refBpsArg ELSE 0),
    <<dir, amountInU, minOutU, hasRef, IF hasRef THEN refBpsArg ELSE 0>>)

\* ------------------------------------------------- single-pair: the rest
Donate(sender, amt0U, amt1U) ==
  IF pool.asset0 \in PairAssets /\ pool.asset1 \in PairAssets
  THEN /\ pool' = [pool EXCEPT
                     !.reserve0 = IF amt0U > 0 THEN AddW(@, amt0U) ELSE @,
                     !.reserve1 = IF amt1U > 0 THEN AddW(@, amt1U) ELSE @]
       /\ bank' = drawAsset(drawAsset(bank, amt0U, pool.asset0),
                            amt1U, pool.asset1)
       /\ last' = Call("donate", TRUE)
       /\ UNCHANGED lps
  ELSE Trap("donate")

\* outcome of claim_fees: the caller and the amounts sent to the DAO account
ClaimCall(ok, sender, f0, f1) ==
  [op |-> "claim_fees", ok |-> ok, args |-> <<sender, f0, f1>>]

PoolClaimFees(sender) ==
  LET claim0 == pool.fee0 > 0 /\ pool.asset0 = AssetHbd
      claim1 == pool.fee1 > 0 /\ pool.asset1 = AssetHbd
      b0 == IF claim0 THEN transferAsset(bank, pool.fee0, pool.asset0)
            ELSE bank
      b1 == IF claim1 THEN transferAsset(b0, pool.fee1, pool.asset1)
            ELSE b0
  IN IF isSystemSender(sender) /\ CanPay(b1)
     THEN /\ pool' = [pool EXCEPT
                        !.fee0 = IF claim0 THEN 0 ELSE @,
                        !.fee1 = IF claim1 THEN 0 ELSE @]
          /\ bank' = b1
          /\ last' = ClaimCall(TRUE, sender,
                               IF claim0 THEN pool.fee0 ELSE 0,
                               IF claim1 THEN pool.fee1 ELSE 0)
          /\ UNCHANGED lps
     ELSE /\ last' = ClaimCall(FALSE, sender, 0, 0)
          /\ UNCHANGED <<pool, lps, bank>>

Burn(sender, amt) ==
  IF amt > 0 /\ amt <= lps[sender]
  THEN /\ lps' = [lps EXCEPT ![sender] = @ - amt]
       /\ pool' = [pool EXCEPT !.totalLP = SubW(@, amt)]
       /\ last' = Call("burn", TRUE)
       /\ UNCHANGED bank
  ELSE Trap("burn")

\* setLP(sender) is written first, then getLP(to) is read back
Transfer(sender, to, amt) ==
  IF amt > 0 /\ amt <= lps[sender]
  THEN LET afterFrom == [lps EXCEPT ![sender] = @ - amt]
       IN /\ lps' = [afterFrom EXCEPT ![to] = AddW(@, amt)]
          /\ last' = Call("transfer", TRUE)
          /\ UNCHANGED <<pool, bank>>
  ELSE Trap("transfer")

SetBaseFee(sender, v) ==
  IF isSystemSender(sender) /\ v <= MaxBaseFeeBps
  THEN /\ pool' = [pool EXCEPT !.baseFeeBps = v]
       /\ last' = Call("set_base_fee", TRUE)
       /\ UNCHANGED <<lps, bank>>
  ELSE Trap("set_base_fee")

SetSlipParams(sender, baseline, share) ==
  IF isSystemSender(sender) /\ baseline <= BpsDenom /\ share <= BpsDenom
  THEN /\ pool' = [pool EXCEPT !.slipBaselineBps = baseline,
                               !.slipShareBps = share]
       /\ last' = Call("set_slip_params", TRUE)
       /\ UNCHANGED <<lps, bank>>
  ELSE Trap("set_slip_params")


\* =================================================== dex-router contract
RouterAssets == {"HBD", "HIVE", "BTC"}
PoolIds == 1 .. MaxPools
Providers == {"hive:alice"}

NoPool ==
  [asset0 |-> "", asset1 |-> "", reserve0 |-> 0, reserve1 |-> 0, fee |-> 0,
   totalLp |-> 0, fee0 |-> 0, fee1 |-> 0]

\* what the last call did: ret "" is a nil return, "error" a returned error
\* message, "trap" a panic
Ret(op, ret) == [op |-> op, ret |-> ret]
Outcome(msg) == IF msg \in {"", "trap"} THEN msg ELSE "error"

RouterInitState ==
  /\ nextPoolId = 0
  /\ pools = [i \in PoolIds |-> NoPool]
  /\ poolLp = [i \in PoolIds |-> [a \in Providers |-> 0]]
  /\ rbank = [a \in RouterAssets |-> 0]
  /\ rlast = Ret("none", "")

\* the value of a call: the message it returns ("" is nil, "trap" a panic)
\* and the stored state it leaves behind
Returned(msg, ps, lp, b) ==
  [ret |-> msg, pools |-> ps, poolLp |-> lp, rbank |-> b]

\* a returned error with nothing written
Reject(msg) == Returned(msg, pools, poolLp, rbank)

\* a panic: the host discards the call
RTrap == Reject("trap")

\* the call's effect on the stored state
Commit(op, r) ==
  /\ pools' = r.pools
  /\ poolLp' = r.poolLp
  /\ rbank' = r.rbank
  /\ rlast' = Ret(op, Outcome(r.ret))
  /\ UNCHANGED nextPoolId

RouterInit ==
  /\ nextPoolId' = 1
  /\ rlast' = Ret("init", "")
  /\ UNCHANGED <<pools, poolLp, rbank>>

\* the pool id is taken from next_pool_id and the record written
CreatePoolWrites(a0, a1, feeArg) ==
  /\ pools' = [pools EXCEPT ![nextPoolId] =
                 [NoPool EXCEPT !.asset0 = a0, !.asset1 = a1,
                                !.fee = IF feeArg = 0
                                        THEN defaultBaseFeeBps
                                        ELSE feeArg]]
  /\ nextPoolId' = AddW(nextPoolId, 1)
  /\ rlast' = Ret("create_pool", "")
  /\ UNCHANGED <<poolLp, rbank>>

\* create_pool without the comparison of the two assets
CreatePoolUnchecked(a0, a1, feeArg) == CreatePoolWrites(a0, a1, feeArg)

CreatePool(a0, a1, feeArg) ==
  IF a0 = a1 THEN Commit("create_pool", Reject("assets must be different"))
  ELSE CreatePoolWrites(a0, a1, feeArg)

\* first pool id in 1 .. next_pool_id-1 holding the pair in either order, 0 if none
findPool(assetA, assetB) ==
  LET hits == {i \in PoolIds :
                 /\ 1 <= i /\ i < nextPoolId
                 /\ pools[i].asset0 # ""
                 /\ \/ pools[i].asset0 = assetA /\ pools[i].asset1 = assetB
                    \/ pools[i].asset0 = assetB /\ pools[i].asset1 = assetA}
  IN IF hits = {} THEN 0 ELSE CHOOSE i \in hits : \A j \in hits : i <= j

\* constant-product output for effective input dIn: rOut - (rIn*rOut)/(rIn+dIn)
\* (a zero divisor panics before this value is used)
AmmOut(rIn, rOut, dIn) ==
  LET newIn == AddW(rIn, dIn)
  IN IF newIn = 0 THEN 0 ELSE SubW(rOut, MulW(rIn, rOut) \div newIn)

\* amountIn * (10000 - feeBps) / 10000, clamped to 1 when it rounds to zero
AfterFee(amountIn, feeBps) ==
  LET d == MulW(amountIn, SubW(BpsDenom, feeBps)) \div BpsDenom
  IN IF d = 0 THEN 1 ELSE d

\* the slippage test of the swap paths: amountOut < amountOut*(10000-slip)/10000
SlippageExceeded(ins, amountOut) ==
  /\ ins.hasSlippage
  /\ amountOut < MulW(amountOut, SubW(BpsDenom, ToWord(ins.slippageBps)))
                   \div BpsDenom

\* HiveDraw / HiveTransfer of a zero amount: the host may accept or refuse it
HostOk(amount, zeroOk) == amount > 0 \/ (amount = 0 /\ zeroOk)

\* the amounts executeDirectSwap computes for an instruction on a pool
DirectSwapCalc(poolId, ins) ==
  LET p == pools[poolId]
      r0 == p.reserve0
      r1 == p.reserve1
      amountInU == ins.minAmountOut
      fwd == p.asset0 = ins.assetIn /\ p.asset1 = ins.assetOut
      dIn == IF fwd THEN AfterFee(amountInU, p.fee) ELSE amountInU
      amountOut == IF fwd THEN AmmOut(r0, r1, dIn) ELSE AmmOut(r1, r0, dIn)
      refRaw == IF ins.hasRef
                THEN MulW(amountOut, ToWord(ins.refBps)) \div BpsDenom ELSE 0
      refOut == IF refRaw > 0 /\ refRaw >= amountOut
                THEN SubW(amountOut, 1) ELSE refRaw
  IN [fwd |-> fwd,
      rev |-> p.asset1 = ins.assetIn /\ p.asset0 = ins.assetOut,
      amountIn |-> amountInU,
      dIn |-> dIn,
      newIn |-> IF fwd THEN AddW(r0, dIn) ELSE AddW(r1, dIn),
      reserveOut |-> IF fwd THEN r1 ELSE r0,
      amountOut |-> amountOut,
      refPaid |-> refRaw > 0,
      refOut |-> refOut,
      userOut |-> SubW(amountOut, refOut),
      fee |-> IF ins.assetIn = "HBD"
              THEN SubW(amountInU,
                        MulW(amountInU, SubW(BpsDenom, p.fee)) \div BpsDenom)
              ELSE 0]

executeDirectSwap(poolId, ins, zeroOk) ==
  LET p == pools[poolId]
      c == DirectSwapCalc(poolId, ins)
      written == IF c.fwd
                 THEN [p EXCEPT !.reserve0 = c.newIn,
                                !.reserve1 = SubW(p.reserve1, c.amountOut)]
                 ELSE [p EXCEPT !.reserve1 = c.newIn,
                                !.reserve0 = SubW(p.reserve0, c.amountOut)]
      final == IF c.fee > 0
               THEN IF c.fwd THEN [written EXCEPT !.fee0 = AddW(@, c.fee)]
                    ELSE [written EXCEPT !.fee1 = AddW(@, c.fee)]
               ELSE written
      paid == [rbank EXCEPT ![ins.assetIn] = @ + c.amountIn,
                            ![ins.assetOut] = @ - c.amountOut]
  IN IF p.asset0 = "" THEN Reject("pool not found")
     ELSE IF p.reserve0 = 0 \/ p.reserve1 = 0
          THEN Reject("pool has zero reserves")
     ELSE IF ~ins.hasMinOut THEN Reject("amount_in required for swap")
     ELSE IF ~c.fwd /\ ~c.rev THEN Reject("invalid asset pair for pool")
     ELSE IF c.newIn = 0 THEN RTrap
     ELSE IF SlippageExceeded(ins, c.amountOut)
          THEN Returned("slippage tolerance exceeded",
                        [pools EXCEPT ![poolId] = written], poolLp, rbank)
     ELSE IF /\ HostOk(Signed(c.amountIn), zeroOk)
             /\ c.refPaid => HostOk(Signed(c.refOut), zeroOk)
             /\ HostOk(Signed(c.userOut), zeroOk)
             /\ CanPay(paid)
          THEN Returned("", [pools EXCEPT ![poolId] = final], poolLp, paid)
     ELSE RTrap

\* one hop of the two-hop path over reserves (r0, r1) read before any write:
\* inIs0 says the hop's input is the pool's asset0
HopOut(r0, r1, feeBps, amountIn, inIs0) ==
  IF inIs0 THEN AmmOut(r0, r1, AfterFee(amountIn, feeBps))
  ELSE AmmOut(r1, r0, AfterFee(amountIn, feeBps))

HopWrite(p, r0, r1, feeBps, amountIn, inIs0) ==
  LET out == HopOut(r0, r1, feeBps, amountIn, inIs0)
  IN IF inIs0
     THEN [p EXCEPT !.reserve0 = AddW(r0, AfterFee(amountIn, feeBps)),
                    !.reserve1 = SubW(r1, out)]
     ELSE [p EXCEPT !.reserve1 = AddW(r1, AfterFee(amountIn, feeBps)),
                    !.reserve0 = SubW(r0, out)]

HopDivZero(r0, r1, feeBps, amountIn, inIs0) ==
  IF inIs0 THEN AddW(r0, AfterFee(amountIn, feeBps)) = 0
  ELSE AddW(r1, AfterFee(amountIn, feeBps)) = 0

\* the amounts executeTwoHopSwap computes once both pools are found
TwoHopCalc(pool1Id, pool2Id, ins) ==
  LET p1 == pools[pool1Id]
      p2 == pools[pool2Id]
      in1Is0 == p1.asset0 = ins.assetIn
      in2Is0 == p2.asset0 = "HBD"
      mid == HopOut(p1.reserve0, p1.reserve1, p1.fee, ins.minAmountOut, in1Is0)
  IN [in1Is0 |-> in1Is0, in2Is0 |-> in2Is0,
      amountIn |-> ins.minAmountOut,
      amountIntermediate |-> mid,
      reserveOut1 |-> IF in1Is0 THEN p1.reserve1 ELSE p1.reserve0,
      reserveOut2 |-> IF in2Is0 THEN p2.reserve1 ELSE p2.reserve0,
      amountOut |-> HopOut(p2.reserve0, p2.reserve1, p2.fee, mid, in2Is0)]

executeTwoHopSwap(ins, zeroOk) ==
  LET pool1Id == findPool(ins.assetIn, "HBD")
      pool2Id == findPool("HBD", ins.assetOut)
  IN IF pool1Id = 0 THEN Reject("no pool found for first hop")
     ELSE IF pool2Id = 0 THEN Reject("no pool found for second hop")
     ELSE IF ~ins.hasMinOut THEN Reject("amount_in required for two-hop swap")
     ELSE
       LET p1 == pools[pool1Id]
           p2 == pools[pool2Id]
           c == TwoHopCalc(pool1Id, pool2Id, ins)
           \* the first hop is written, then the second from the reserves
           \* that were read before the first write
           w1 == [pools EXCEPT ![pool1Id] =
                    HopWrite(p1, p1.reserve0, p1.reserve1, p1.fee,
                             c.amountIn, c.in1Is0)]
           w2 == [w1 EXCEPT ![pool2Id] =
                    HopWrite(w1[pool2Id], p2.reserve0, p2.reserve1, p2.fee,
                             c.amountIntermediate, c.in2Is0)]
           paid0 == [rbank EXCEPT ![ins.assetIn] = @ + c.amountIn]
           paid == [paid0 EXCEPT ![ins.assetOut] = @ - c.amountOut]
       IN IF \/ HopDivZero(p1.reserve0, p1.reserve1, p1.fee,
                           c.amountIn, c.in1Is0)
             \/ HopDivZero(p2.reserve0, p2.reserve1, p2.fee,
                           c.amountIntermediate, c.in2Is0)
          THEN RTrap
          ELSE IF SlippageExceeded(ins, c.amountOut)
          THEN Returned("slippage tolerance exceeded", w2, poolLp, rbank)
          ELSE IF /\ HostOk(Signed(c.amountIn), zeroOk)
                  /\ HostOk(Signed(c.amountOut), zeroOk)
                  /\ CanPay(paid)
          THEN Returned("", w2, poolLp, paid)
          ELSE RTrap

executeSwap(ins, zeroOk) ==
  LET directPoolId == findPool(ins.assetIn, ins.assetOut)
  IN IF directPoolId # 0 THEN executeDirectSwap(directPoolId, ins, zeroOk)
     ELSE IF ins.assetIn # "HBD" /\ ins.assetOut # "HBD"
          THEN executeTwoHopSwap(ins, zeroOk)
     ELSE Reject("no suitable pool found")

executeAddLiquidity(poolId, amt0U, amt1U, provider) ==
  LET p == pools[poolId]
      r0 == p.reserve0
      r1 == p.reserve1
      totalLP == p.totalLp
      divZero == totalLP # 0 /\ (r0 = 0 \/ r1 = 0)
      minted == IF totalLP = 0 THEN sqrt128(amt0U * amt1U)
                ELSE IF divZero THEN 0
                ELSE min64(MulW(amt0U, totalLP) \div r0,
                           MulW(amt1U, totalLP) \div r1)
      drawn0 == [rbank EXCEPT ![p.asset0] = @ + amt0U]
      drawn == [drawn0 EXCEPT ![p.asset1] = @ + amt1U]
  IN IF ~divZero /\ minted > 0
     THEN Returned("",
            [pools EXCEPT ![poolId] =
               [p EXCEPT !.reserve0 = AddW(r0, amt0U),
                         !.reserve1 = AddW(r1, amt1U),
                         !.totalLp = AddW(totalLP, minted)]],
            [poolLp EXCEPT ![poolId][provider] = AddW(@, minted)],
            drawn)
     ELSE RTrap

executeRemoveLiquidity(poolId, lpAmountU, provider) ==
  LET p == pools[poolId]
      userLP == poolLp[poolId][provider]
      totalLP == p.totalLp
  IN IF lpAmountU > 0 /\ lpAmountU <= userLP /\ totalLP > 0
     THEN LET amt0 == MulW(p.reserve0, lpAmountU) \div totalLP
              amt1 == MulW(p.reserve1, lpAmountU) \div totalLP
              paid0 == IF Signed(amt0) > 0
                       THEN [rbank EXCEPT ![p.asset0] = @ - amt0] ELSE rbank
              paid == IF Signed(amt1) > 0
                      THEN [paid0 EXCEPT ![p.asset1] = @ - amt1] ELSE paid0
          IN IF CanPay(paid)
             THEN Returned("",
                    [pools EXCEPT ![poolId] =
                       [p EXCEPT !.totalLp = SubW(totalLP, lpAmountU),
                                 !.reserve0 = SubW(p.reserve0, amt0),
                                 !.reserve1 = SubW(p.reserve1, amt1)]],
                    [poolLp EXCEPT ![poolId][provider] = userLP - lpAmountU],
                    paid)
             ELSE RTrap
     ELSE RTrap

executeDeposit(ins) ==
  LET poolId == findPool(ins.assetIn, ins.assetOut)
  IN IF poolId = 0 THEN Reject("pool not found")
     ELSE IF ~ins.hasMeta THEN Reject("deposit amounts required in metadata")
     ELSE executeAddLiquidity(poolId, ins.amount0, ins.amount1, ins.recipient)

executeWithdrawal(ins) ==
  LET poolId == findPool(ins.assetIn, ins.assetOut)
  IN IF poolId = 0 THEN Reject("pool not found")
     ELSE IF ~ins.hasMeta THEN Reject("lp_amount required in metadata")
     ELSE executeRemoveLiquidity(poolId, ins.lpAmount, ins.recipient)

\* what execute returns for an instruction, and the state it leaves
ExecuteReturn(ins, zeroOk) ==
  IF \/ ins.type = "" \/ ins.version = "" \/ ins.assetIn = ""
     \/ ins.assetOut = "" \/ ins.recipient = ""
  THEN Reject("missing required fields")
  ELSE IF ins.type = "swap" THEN executeSwap(ins, zeroOk)
  ELSE IF ins.type = "deposit" THEN executeDeposit(ins)
  ELSE IF ins.type = "withdrawal" THEN executeWithdrawal(ins)
  ELSE Reject("unknown instruction type")

Execute(ins, zeroOk) == Commit("execute", ExecuteReturn(ins, zeroOk))

\* execute as submitted by sender: the contract never reads the sender of an
\* instruction
ExecuteAs(sender, ins, zeroOk) == Execute(ins, zeroOk)

RouterClaimFees(sender, poolId) ==
  IF ~isSystemSender(sender) THEN Commit("claim_fees", Reject("system only"))
  ELSE LET p == pools[poolId]
           claim0 == p.fee0 > 0 /\ p.asset0 = "HBD"
           claim1 == p.fee1 > 0 /\ p.asset1 = "HBD"
           b0 == IF claim0 THEN [rbank EXCEPT !["HBD"] = @ - p.fee0] ELSE rbank
           b1 == IF claim1 THEN [b0 EXCEPT !["HBD"] = @ - p.fee1] ELSE b0
       IN IF CanPay(b1)
          THEN Commit("claim_fees",
                 Returned("",
                   [pools EXCEPT ![poolId] =
                      [p EXCEPT !.fee0 = IF claim0 THEN 0 ELSE @,
                                !.fee1 = IF claim1 THEN 0 ELSE @]],
                   poolLp, b1))
          ELSE Commit("claim_fees", RTrap)

\* ======================================================== router service
\* The off-chain routing service reads pools through its PoolQuerier and
\* computes swap results; it writes no pool state.  A querier is the record
\* [nil, pools]: nil is the service as constructed (no querier set), pools
\* maps a contract id to the pool the querier reports for it.
ServiceAssets == {"BTC", "HBD", "HIVE", "ETH"}
ServicePoolIds ==
  {"btc-hbd-pool", "hbd-savings-hbd-pool", "hive-hbd-pool", "btc-hive-pool"}

NoServicePool ==
  [present |-> FALSE, ContractId |-> "", Asset0 |-> "", Asset1 |-> "",
   Reserve0 |-> 0, Reserve1 |-> 0, Fee |-> 0]

PoolInfoWithReserves(id, a0, a1, r0, r1, fee) ==
  [present |-> TRUE, ContractId |-> id, Asset0 |-> a0, Asset1 |-> a1,
   Reserve0 |-> r0, Reserve1 |-> r1, Fee |-> fee]

NilQuerier == [nil |-> TRUE, pools |-> [id \in ServicePoolIds |-> NoServicePool]]

\* NewService: no querier, nothing computed yet
NoSwapResult ==
  [Success |-> FALSE, AmountOut |-> 0, HbdAmount |-> 0, Fee0 |-> 0,
   Fee1 |-> 0, Route |-> <<>>, RouteNil |-> TRUE, ErrorMessage |-> ""]

NoSwapParams ==
  [Sender |-> "", AmountIn |-> 0, AssetIn |-> "", AssetOut |-> "",
   MinAmountOut |-> 0, MaxSlippage |-> 0, MiddleOutRatio |-> 0,
   Beneficiary |-> "", RefBps |-> 0]

ServiceInitState ==
  /\ poolQuerier = NilQuerier
  /\ svcLast = [op |-> "none", params |-> NoSwapParams,
                result |-> NoSwapResult, hops |-> <<>>,
                plan |-> [expectedHbdOut |-> 0, expectedFinalOut |-> 0,
                          computedMinFinal |-> 0]]

\* the fallback reserves of getDefaultPoolWithReserves, in units of
\* DefaultReserveUnit base units so that they fit the model's word
getDefaultPoolWithReserves(contractId) ==
  CASE contractId = "btc-hbd-pool" ->
         PoolInfoWithReserves("btc-hbd-pool", "BTC", "HBD",
           DefaultReserveBtc \div DefaultReserveUnit,
           DefaultReserveHbd \div DefaultReserveUnit, defaultBaseFeeBps)
    [] contractId = "hbd-savings-hbd-pool" ->
         PoolInfoWithReserves("hbd-savings-hbd-pool", "HBD_SAVINGS", "HBD",
           DefaultReserveHbd \div DefaultReserveUnit,
           DefaultReserveHbd \div DefaultReserveUnit, defaultBaseFeeBps)
    [] contractId = "hive-hbd-pool" ->
         PoolInfoWithReserves("hive-hbd-pool", "HBD", "HIVE",
           DefaultReserveHbd \div DefaultReserveUnit,
           DefaultReserveHbd \div DefaultReserveUnit, defaultBaseFeeBps)
    [] OTHER -> NoServicePool

\* MockPoolQuerier.GetPoolByID / the fallback when no querier is set;
\* present = FALSE is the error return
getPoolWithReserves(q, contractId) ==
  IF q.nil THEN getDefaultPoolWithReserves(contractId)
  ELSE IF contractId \in ServicePoolIds THEN q.pools[contractId]
  ELSE NoServicePool

\* MockPoolQuerier.GetPoolsByAsset
GetPoolsByAsset(q, asset) ==
  {id \in ServicePoolIds :
     /\ q.pools[id].present
     /\ (q.pools[id].Asset0 = asset \/ q.pools[id].Asset1 = asset)}

PoolInfo(id, a0, a1) ==
  [found |-> TRUE, ContractId |-> id, Asset0 |-> a0, Asset1 |-> a1]

NoPoolInfo == [found |-> FALSE, ContractId |-> "", Asset0 |-> "", Asset1 |-> ""]

\* findPool of the service: the querier's pools first, then the hardcoded
\* pairs; found = FALSE is the error return
ServiceFindPool(q, asset0, asset1) ==
  LET hits == {id \in GetPoolsByAsset(q, asset0) :
                 \/ (q.pools[id].Asset0 = asset0 /\ q.pools[id].Asset1 = asset1)
                 \/ (q.pools[id].Asset0 = asset1 /\ q.pools[id].Asset1 = asset0)}
  IN IF ~q.nil /\ hits # {}
     THEN LET id == CHOOSE h \in hits : TRUE
          IN PoolInfo(q.pools[id].ContractId, q.pools[id].Asset0,
                      q.pools[id].Asset1)
     ELSE IF {asset0, asset1} = {"BTC", "HBD"}
     THEN PoolInfo("btc-hbd-pool", "BTC", "HBD")
     ELSE IF {asset0, asset1} = {"HBD_SAVINGS", "HBD"}
     THEN PoolInfo("hbd-savings-hbd-pool", "HBD_SAVINGS", "HBD")
     ELSE IF {asset0, asset1} = {"HBD", "HIVE"}
     THEN PoolInfo("hive-hbd-pool", "HBD", "HIVE")
     ELSE NoPoolInfo

\* Go's integer division truncates toward zero
TruncDiv(a, b) == IF a >= 0 THEN a \div b ELSE -((-a) \div b)

\* big.Int constant product: reserveOut - reserveIn*reserveOut/(reserveIn+dx),
\* exact
BigAmountOut(reserveIn, reserveOut, amountInAfterFee) ==
  reserveOut - ((reserveIn * reserveOut) \div (reserveIn + amountInAfterFee))

Projection(ok, out, effIn, err) ==
  [ok |-> ok, out |-> out, amountInAfterFee |-> effIn, err |-> err]

AtLeastOne(x) == IF x = 0 THEN 1 ELSE x

\* calculateExpectedOutput, from the constant-product result on
ExpectedFromOutput(reserveOut, amountInAfterFee, amountOutBig) ==
  IF amountOutBig <= 0 \/ amountOutBig >= Word
  THEN Projection(FALSE, 0, amountInAfterFee, "result out of bounds")
  ELSE IF amountOutBig >= reserveOut
  THEN Projection(FALSE, 0, amountInAfterFee, "output exceeds reserve")
  ELSE Projection(TRUE, Signed(amountOutBig), amountInAfterFee, "")

\* calculateExpectedOutput, from the fee step on
ExpectedFromReserves(amountIn, reserveIn, reserveOut, feeBps) ==
  IF reserveIn = 0 \/ reserveOut = 0
  THEN Projection(FALSE, 0, 0, "pool has zero reserves")
  ELSE ExpectedFromOutput(reserveOut,
         AtLeastOne(MulW(ToWord(amountIn), SubW(BpsDenom, feeBps))
                      \div BpsDenom),
         BigAmountOut(reserveIn, reserveOut,
           AtLeastOne(MulW(ToWord(amountIn), SubW(BpsDenom, feeBps))
                        \div BpsDenom)))

\* calculateExpectedOutput, once the pool is read
ExpectedFromPool(amountIn, assetIn, info) ==
  IF ~info.present
  THEN Projection(FALSE, 0, 0, "failed to get pool reserves")
  ELSE IF info.Asset0 # assetIn /\ info.Asset1 # assetIn
  THEN Projection(FALSE, 0, 0, "asset not found in pool")
  ELSE ExpectedFromReserves(amountIn,
         IF info.Asset0 = assetIn THEN info.Reserve0 ELSE info.Reserve1,
         IF info.Asset0 = assetIn THEN info.Reserve1 ELSE info.Reserve0,
         IF info.Fee = 0 THEN ServiceDefaultFeeBps ELSE info.Fee)

\* calculateExpectedOutput: ok = FALSE is the error return
calculateExpectedOutput(q, amountIn, contractId, assetIn, assetOut) ==
  IF amountIn <= 0
  THEN Projection(FALSE, 0, 0, "amount in must be greater than zero")
  ELSE ExpectedFromPool(amountIn, assetIn, getPoolWithReserves(q, contractId))

SwapParams(amountIn, assetIn, assetOut, minAmountOut, maxSlippage, ratio) ==
  [Sender |-> "test-user", AmountIn |-> amountIn, AssetIn |-> assetIn,
   AssetOut |-> assetOut, MinAmountOut |-> minAmountOut,
   MaxSlippage |-> maxSlippage, MiddleOutRatio |-> ratio,
   Beneficiary |-> "", RefBps |-> 0]

\* a SwapResult with Success = false; routeNil tells a Route left unset from
\* one set to the empty slice
Failure(msg, routeNil) ==
  [Success |-> FALSE, AmountOut |-> 0, HbdAmount |-> 0, Fee0 |-> 0,
   Fee1 |-> 0, Route |-> <<>>, RouteNil |-> routeNil, ErrorMessage |-> msg]

\* what one call of executeDirectSwap read and computed, with its result
Hop(params, reserveIn, reserveOut, feeBps, effIn, result) ==
  [params |-> params, reserveIn |-> reserveIn, reserveOut |-> reserveOut,
   feeBps |-> feeBps, amountInAfterFee |-> effIn, result |-> result]

\* executeDirectSwap, from the output checks on
HopFromOutput(params, reserveIn, reserveOut, feeBps, effIn, amountOut) ==
  IF amountOut <= 0 \/ amountOut >= Word
  THEN Hop(params, reserveIn, reserveOut, feeBps, effIn,
         Failure("invalid swap output calculation: result out of bounds",
                 TRUE))
  ELSE IF amountOut = 0
  THEN Hop(params, reserveIn, reserveOut, feeBps, effIn,
         Failure("swap output is zero", TRUE))
  ELSE IF amountOut >= reserveOut
  THEN Hop(params, reserveIn, reserveOut, feeBps, effIn,
         Failure("invalid swap output calculation: output exceeds reserve",
                 TRUE))
  ELSE IF params.MinAmountOut > 0 /\ Signed(amountOut) < params.MinAmountOut
  THEN Hop(params, reserveIn, reserveOut, feeBps, effIn,
         Failure("slippage tolerance exceeded", TRUE))
  ELSE Hop(params, reserveIn, reserveOut, feeBps, effIn,
         [Success |-> TRUE, AmountOut |-> Signed(amountOut),
          HbdAmount |-> IF params.AssetOut = "HBD" THEN Signed(amountOut)
                        ELSE IF params.AssetIn = "HBD" THEN params.AmountIn
                        ELSE Signed(amountOut),
          Fee0 |-> params.AmountIn - Signed(effIn), Fee1 |-> 0,
          Route |-> <<"hive">>, RouteNil |-> FALSE, ErrorMessage |-> ""])

\* executeDirectSwap, from the fee step on
HopFromFee(params, reserveIn, reserveOut, feeBps, effIn) ==
  IF feeBps >= BpsDenom
  THEN Hop(params, reserveIn, reserveOut, feeBps, 0,
         Failure("invalid fee: must be less than 100%", TRUE))
  ELSE IF effIn = 0
  THEN Hop(params, reserveIn, reserveOut, feeBps, effIn,
         Failure("swap amount too small after fees", TRUE))
  ELSE HopFromOutput(params, reserveIn, reserveOut, feeBps, effIn,
         BigAmountOut(reserveIn, reserveOut, effIn))

\* HopFromReserves without the drain check
HopFromReservesNoDrain(params, reserveIn, reserveOut, feeBps) ==
  IF reserveIn = 0 \/ reserveOut = 0
  THEN Hop(params, reserveIn, reserveOut, feeBps, 0,
         Failure("pool has zero reserves", TRUE))
  ELSE HopFromFee(params, reserveIn, reserveOut, feeBps,
         MulW(ToWord(params.AmountIn), SubW(BpsDenom, feeBps)) \div BpsDenom)

\* executeDirectSwap, from the reserve checks on
HopFromReserves(params, reserveIn, reserveOut, feeBps) ==
  IF reserveIn = 0 \/ reserveOut = 0
  THEN Hop(params, reserveIn, reserveOut, feeBps, 0,
         Failure("pool has zero reserves", TRUE))
  ELSE IF ToWord(params.AmountIn) > MulW(reserveIn, MaxSwapPercent) \div 100
  THEN Hop(params, reserveIn, reserveOut, feeBps, 0,
         Failure("swap amount exceeds maximum allowed (50% of reserve)",
                 TRUE))
  ELSE HopFromFee(params, reserveIn, reserveOut, feeBps,
         MulW(ToWord(params.AmountIn), SubW(BpsDenom, feeBps)) \div BpsDenom)

\* executeDirectSwap, once the pool is read
HopFromPool(params, info) ==
  IF ~info.present
  THEN Hop(params, 0, 0, 0, 0, Failure("failed to get pool reserves", TRUE))
  ELSE HopFromReserves(params,
         IF info.Asset0 = params.AssetIn THEN info.Reserve0 ELSE info.Reserve1,
         IF info.Asset0 = params.AssetIn THEN info.Reserve1 ELSE info.Reserve0,
         IF info.Fee = 0 THEN ServiceDefaultFeeBps ELSE info.Fee)

\* executeDirectSwap, once the pool is looked up
HopFromLookup(q, params, found) ==
  IF ~found.found
  THEN Hop(params, 0, 0, 0, 0, Failure("no pool found", TRUE))
  ELSE HopFromPool(params, getPoolWithReserves(q, found.ContractId))

\* executeDirectSwap of the service, with the values it computed on the way
DirectSwapHop(q, params) ==
  IF params.AmountIn <= 0
  THEN Hop(params, 0, 0, 0, 0,
         Failure("amount in must be greater than zero", TRUE))
  ELSE IF params.AmountIn > Word \div 4
  THEN Hop(params, 0, 0, 0, 0, Failure("swap amount too large", TRUE))
  ELSE HopFromLookup(q, params,
         ServiceFindPool(q, params.AssetIn, params.AssetOut))

ServiceExecuteDirectSwap(q, params) == DirectSwapHop(q, params).result

\* MiddleOutRatio is a float64; the model writes it in halves (0 is 0.0,
\* 1 is 0.5, 2 is 1.0), for which float64(maxSlippageBps) * ratio is exact
RatioUnit == 2

Clamp(x, lo, hi) == IF x < lo THEN lo ELSE IF x > hi THEN hi ELSE x

\* calculateMinOutput, from the product on
MinFromProduct(expectedOut, minOut) ==
  IF minOut = 0 /\ expectedOut > 0 THEN 1 ELSE minOut

\* calculateMinOutput
calculateMinOutput(expectedOut, maxSlippageBps, ratio) ==
  IF expectedOut <= 0 THEN 0
  ELSE MinFromProduct(expectedOut,
         TruncDiv(
           Signed(MulW(ToWord(expectedOut),
             BpsDenom - Clamp((Clamp(maxSlippageBps, 0, BpsDenom)
                                 * Clamp(ratio, 0, RatioUnit)) \div RatioUnit,
                              0, BpsDenom))),
           BpsDenom))

max64i(a, b) == IF a > b THEN a ELSE b

\* what ExecuteSwap projected before its hops
Plan(expectedHbdOut, expectedFinalOut, computedMinFinal) ==
  [expectedHbdOut |-> expectedHbdOut, expectedFinalOut |-> expectedFinalOut,
   computedMinFinal |-> computedMinFinal]

NoPlan == Plan(0, 0, 0)

\* the value of ExecuteSwap: the SwapResult, the executeDirectSwap calls
\* made, in order, and the projection
Routed(result, hops, plan) ==
  [result |-> result, hops |-> hops, plan |-> plan]

\* ExecuteSwap, after both hops
RouteFromSecond(plan, first, second) ==
  IF ~second.result.Success
  THEN Routed(Failure("second swap failed", TRUE), <<first, second>>, plan)
  ELSE Routed([Success |-> TRUE, AmountOut |-> second.result.AmountOut,
               HbdAmount |-> first.result.HbdAmount,
               Fee0 |-> first.result.Fee0, Fee1 |-> second.result.Fee0,
               Route |-> <<"hive", "hbd-intermediate">>,
               RouteNil |-> FALSE, ErrorMessage |-> ""],
              <<first, second>>, plan)

\* RouteFromFirst going on to the second hop whatever the first returned
RouteFromFirstKeepGoing(q, params, plan, minFinalOut, first) ==
  RouteFromSecond(plan, first,
    DirectSwapHop(q,
      SwapParams(first.result.HbdAmount, "HBD", params.AssetOut,
                 minFinalOut, params.MaxSlippage, 0)))

\* ExecuteSwap, after the first hop
RouteFromFirst(q, params, plan, minFinalOut, first) ==
  IF ~first.result.Success
  THEN Routed(Failure("first swap failed", FALSE), <<first>>, plan)
  ELSE RouteFromSecond(plan, first,
         DirectSwapHop(q,
           SwapParams(first.result.HbdAmount, "HBD", params.AssetOut,
                      minFinalOut, params.MaxSlippage, 0)))

\* RouteFromBounds passing only the computed minimum to the second hop
RouteFromBoundsComputedOnly(q, params, plan, minHbdOut) ==
  RouteFromFirst(q, params, plan, plan.computedMinFinal,
    DirectSwapHop(q,
      SwapParams(params.AmountIn, params.AssetIn, "HBD", minHbdOut,
                 params.MaxSlippage, 0)))

\* ExecuteSwap, from the slippage bounds on
RouteFromBounds(q, params, plan, minHbdOut) ==
  RouteFromFirst(q, params, plan,
    max64i(params.MinAmountOut, plan.computedMinFinal),
    DirectSwapHop(q,
      SwapParams(params.AmountIn, params.AssetIn, "HBD", minHbdOut,
                 params.MaxSlippage, 0)))

\* ExecuteSwap, from the second projection on
RouteFromExpected(q, params, expectedHbdOut, expectedFinalOut) ==
  IF ~expectedFinalOut.ok
  THEN Routed(Failure("failed to calculate final output", TRUE), <<>>, NoPlan)
  ELSE RouteFromBounds(q, params,
         Plan(expectedHbdOut.out, expectedFinalOut.out,
              calculateMinOutput(expectedFinalOut.out, params.MaxSlippage,
                                 RatioUnit)),
         calculateMinOutput(expectedHbdOut.out, params.MaxSlippage,
                            params.MiddleOutRatio))

\* ExecuteSwap, from the first projection on
RouteFromPools(q, params, pool2, expectedHbdOut) ==
  IF ~expectedHbdOut.ok
  THEN Routed(Failure("failed to calculate HBD output", TRUE), <<>>, NoPlan)
  ELSE RouteFromExpected(q, params, expectedHbdOut,
         calculateExpectedOutput(q, expectedHbdOut.out, pool2.ContractId,
                                 "HBD", params.AssetOut))

\* ExecuteSwap, the two-hop route through HBD
RouteTwoHop(q, params, pool1, pool2) ==
  IF ~pool1.found
  THEN Routed(Failure("no pool found for first hop", TRUE), <<>>, NoPlan)
  ELSE IF ~pool2.found
  THEN Routed(Failure("no pool found for second hop", TRUE), <<>>, NoPlan)
  ELSE RouteFromPools(q, params, pool2,
         calculateExpectedOutput(q, params.AmountIn, pool1.ContractId,
                                 params.AssetIn, "HBD"))

RouteDirect(hop) == Routed(hop.result, <<hop>>, NoPlan)

\* ExecuteSwap
ExecuteSwap(q, params) ==
  IF params.AssetIn = params.AssetOut
  THEN Routed(Failure("cannot swap asset to itself", TRUE), <<>>, NoPlan)
  ELSE IF params.AssetIn = "HBD" \/ params.AssetOut = "HBD"
  THEN RouteDirect(DirectSwapHop(q, params))
  ELSE RouteTwoHop(q, params,
         ServiceFindPool(q, params.AssetIn, "HBD"),
         ServiceFindPool(q, "HBD", params.AssetOut))

\* ComputeRoute: the external entry point, ExecuteSwap on a copy of the params
ComputeRoute(params) ==
  LET r == ExecuteSwap(poolQuerier, params)
  IN /\ svcLast' = [op |-> "ComputeRoute", params |-> params,
                     result |-> r.result, hops |-> r.hops, plan |-> r.plan]
     /\ UNCHANGED poolQuerier

\* SetPoolQuerier
SetPoolQuerier(querier) ==
  /\ poolQuerier' = querier
  /\ UNCHANGED svcLast

\* =================================================== instruction schemas
\* The schemas package parses a memo into a SwapInstruction.  A memo is taken
\* by its shape and by the text of its fields:
\*   shape "object"  a well-formed JSON object
\*         "braces"  text in braces that is not JSON
\*         "query"   a well-formed URL query string
\*         "text"    text url.ParseQuery refuses
\* A text field holds its string ("" when the key is missing); a number
\* field is [present, numeric, value]: numeric says the text is an integer.
NoInt == [set |-> FALSE, value |-> 0]

SomeInt(v) == [set |-> TRUE, value |-> v]

\* the struct, with nil pointers as NoInt / ""
SwapInstruction(type, version, assetIn, assetOut, recipient, slippage, beneficiary, refBps) ==
  [InstructionType |-> type, SchemaVersion |-> version, AssetIn |-> assetIn,
   AssetOut |-> assetOut, Recipient |-> recipient, SlippageBps |-> slippage,
   Beneficiary |-> beneficiary, RefBps |-> refBps]

NoSwapInstruction == SwapInstruction("", "", "", "", "", NoInt, "", NoInt)

\* what a parser returns: (nil, err) or (&instruction, nil)
Parsed(instruction, err) ==
  [nil |-> err # "",
   instruction |-> IF err # "" THEN NoSwapInstruction ELSE instruction,
   err |-> err]

\* the message of the ValidationError, "" for nil
Validate(s) ==
  IF s.InstructionType = "" THEN "type is required"
  ELSE IF s.SchemaVersion = "" THEN "version is required"
  ELSE IF s.AssetIn = "" THEN "asset_in is required"
  ELSE IF s.AssetOut = "" THEN "asset_out is required"
  ELSE IF s.Recipient = "" THEN "recipient is required"
  ELSE ""

\* the instruction when Validate accepts it
Validated(instruction) ==
  IF Validate(instruction) # "" THEN Parsed(instruction, "validation failed")
  ELSE Parsed(instruction, "")

\* json.Unmarshal into *int: a number is stored, a missing key leaves nil
JsonInt(raw) == IF raw.present THEN SomeInt(raw.value) ELSE NoInt

\* strconv.Atoi of a non-empty value: a text that is no integer leaves nil
QueryInt(raw) ==
  IF raw.present /\ raw.numeric THEN SomeInt(raw.value) ELSE NoInt

ParseFromJSON(memo) ==
  IF \/ memo.shape # "object"
     \/ memo.slippage.present /\ ~memo.slippage.numeric
     \/ memo.refBps.present /\ ~memo.refBps.numeric
  THEN Parsed(NoSwapInstruction, "failed to parse JSON")
  ELSE Validated(SwapInstruction(memo.type, memo.version, memo.assetIn,
                                 memo.assetOut, memo.recipient,
                                 JsonInt(memo.slippage), memo.beneficiary,
                                 JsonInt(memo.refBps)))

\* a text that is no query string carries none of the keys
ParseFromQueryParams(memo) ==
  IF memo.shape = "text"
  THEN Parsed(NoSwapInstruction, "failed to parse query string")
  ELSE IF memo.shape # "query" THEN Validated(NoSwapInstruction)
  ELSE Validated(SwapInstruction(memo.type, memo.version, memo.assetIn,
                                 memo.assetOut, memo.recipient,
                                 QueryInt(memo.slippage), memo.beneficiary,
                                 QueryInt(memo.refBps)))

ParseFromMemo(memo) ==
  IF memo.shape \in {"object", "braces"} THEN ParseFromJSON(memo)
  ELSE ParseFromQueryParams(memo)

SchemaInitState ==
  parsed = [op |-> "none", memo |-> <<>>, result |-> Parsed(NoSwapInstruction, "")]

\* ------------------------------------------------- single-pair: behaviours
Amounts == 0 .. MaxAmt
PairOrders == {<<"hbd", "hive">>, <<"hive", "hbd">>}
\* payload forms of swap: "dir,amountIn[,minOut]" and
\* "dir,amountIn,minOut,beneficiary,refBps"
SwapForms ==
  {[minOut |-> 0, hasRef |-> FALSE, refBps |-> 0],
   [minOut |-> 2, hasRef |-> FALSE, refBps |-> 0],
   [minOut |-> 0, hasRef |-> TRUE, refBps |-> 0],
   [minOut |-> 0, hasRef |-> TRUE, refBps |-> MaxRefBps],
   [minOut |-> 0, hasRef |-> TRUE, refBps |-> MaxRefBps + 1]}
FeeArgs == {MaxBaseFeeBps, MaxBaseFeeBps + 1}
SlipArgs == {<<0, BpsDenom>>, <<BpsDenom + 1, 0>>}
\* <<dir, amountIn, form>>: every form in both directions, and one call each
\* with a zero amount and with a direction that does not exist
SwapCalls ==
  {<<dir, amt, f>> : dir \in {"0to1", "1to0"}, amt \in 1 .. MaxAmt,
                     f \in SwapForms}
  \cup {<<"0to1", 0, [minOut |-> 0, hasRef |-> FALSE, refBps |-> 0]>>,
        <<"bad", 1, [minOut |-> 0, hasRef |-> FALSE, refBps |-> 0]>>}
\* <<sender, addr>>: the system withdrawing for either user, a user trying to
SICalls == {<<"system:consensus", "hive:alice">>,
            <<"system:consensus", "hive:bob">>,
            <<"hive:alice", "hive:bob">>}
Callers == {"hive:alice", "system:consensus"}
Traders == {"hive:bob"}

\* the explored range: every stored quantity stays within MaxReserve
Bounded ==
  /\ pool.reserve0 <= MaxReserve /\ pool.reserve1 <= MaxReserve
  /\ pool.totalLP <= MaxReserve
  /\ pool.fee0 <= MaxReserve /\ pool.fee1 <= MaxReserve
  /\ \A a \in Accounts : lps[a] <= MaxReserve
  /\ \A a \in PairAssets : bank[a] <= MaxReserve

LpAmounts(addr) == Amounts \cup {lps[addr]}

\* Each call below is one transaction on the pair contract; the exploration
\* keeps the stored amounts within Bounded and leaves the router alone.
DoPoolInit ==
  /\ \E sender \in Traders, o \in PairOrders, f \in InitFees :
       PoolInit(sender, o[1], o[2], f)
  /\ Bounded' /\ UNCHANGED <<rvars, svars, ivars>>

DoAddLiquidity ==
  /\ \E sender \in Users, a0 \in Amounts, a1 \in Amounts :
       AddLiquidity(sender, a0, a1)
  /\ Bounded' /\ UNCHANGED <<rvars, svars, ivars>>

DoRemoveLiquidity ==
  /\ \E sender \in Users : \E lp \in LpAmounts(sender) :
       RemoveLiquidity(sender, lp)
  /\ Bounded' /\ UNCHANGED <<rvars, svars, ivars>>

DoSwap ==
  /\ \E sender \in Traders, c \in SwapCalls :
       Swap(sender, c[1], c[2], c[3].minOut, c[3].hasRef, c[3].refBps)
  /\ Bounded' /\ UNCHANGED <<rvars, svars, ivars>>

DoDonate ==
  /\ \E sender \in Traders, a0 \in Amounts, a1 \in Amounts :
       Donate(sender, a0, a1)
  /\ Bounded' /\ UNCHANGED <<rvars, svars, ivars>>

DoPoolClaimFees ==
  /\ \E sender \in Callers : PoolClaimFees(sender)
  /\ Bounded' /\ UNCHANGED <<rvars, svars, ivars>>

DoBurn ==
  /\ \E sender \in Users : \E amt \in LpAmounts(sender) : Burn(sender, amt)
  /\ Bounded' /\ UNCHANGED <<rvars, svars, ivars>>

DoTransfer ==
  /\ \E sender \in Users, to \in Users : \E amt \in LpAmounts(sender) :
       Transfer(sender, to, amt)
  /\ Bounded' /\ UNCHANGED <<rvars, svars, ivars>>

DoSIWithdraw ==
  /\ \E c \in SICalls : \E amt \in LpAmounts(c[2]) : SIWithdraw(c[1], c[2], amt)
  /\ Bounded' /\ UNCHANGED <<rvars, svars, ivars>>

DoSetBaseFee ==
  /\ \E sender \in Callers, v \in FeeArgs : SetBaseFee(sender, v)
  /\ Bounded' /\ UNCHANGED <<rvars, svars, ivars>>

DoSetSlipParams ==
  /\ \E sender \in Callers, p \in SlipArgs : SetSlipParams(sender, p[1], p[2])
  /\ Bounded' /\ UNCHANGED <<rvars, svars, ivars>>

Init ==
  PairInitState /\ RouterInitState /\ ServiceInitState /\ SchemaInitState

Next ==
  \/ DoPoolInit
  \/ DoAddLiquidity
  \/ DoRemoveLiquidity
  \/ DoSwap
  \/ DoDonate
  \/ DoPoolClaimFees
  \/ DoBurn
  \/ DoTransfer
  \/ DoSIWithdraw
  \/ DoSetBaseFee
  \/ DoSetSlipParams

Spec == Init /\ [][Next]_vars

\* ------------------------------------------------------ router: behaviours
RouterPools == {<<"HBD", "HIVE", 0>>, <<"BTC", "HBD", MaxBaseFeeBps>>,
                <<"HIVE", "HIVE", 0>>}
SwapPairs == {<<"HBD", "HIVE">>, <<"HIVE", "HBD">>, <<"BTC", "HIVE">>,
              <<"HIVE", "HIVE">>, <<"HBD", "HBD">>}
LiquidityPairs == {<<"HBD", "HIVE">>, <<"BTC", "HBD">>}
BigSlippageBps == 2 * BpsDenom

\* the optional fields of a swap instruction
NoForm == [hasMinOut |-> FALSE, hasSlippage |-> FALSE, slippageBps |-> 0,
           hasRef |-> FALSE, refBps |-> 0]
RouterSwapForms ==
  {[NoForm EXCEPT !.hasMinOut = TRUE],
   [NoForm EXCEPT !.hasMinOut = TRUE, !.hasSlippage = TRUE,
                  !.slippageBps = 50],
   [NoForm EXCEPT !.hasMinOut = TRUE, !.hasSlippage = TRUE,
                  !.slippageBps = BigSlippageBps],
   [NoForm EXCEPT !.hasMinOut = TRUE, !.hasRef = TRUE, !.refBps = BpsDenom]}

\* a decoded DexInstruction
Instruction(type, assetIn, assetOut, recipient, f, amt, hasMeta, a0, a1, lp) ==
  [type |-> type, version |-> "1.0.0", assetIn |-> assetIn,
   assetOut |-> assetOut, recipient |-> recipient,
   hasSlippage |-> f.hasSlippage, slippageBps |-> f.slippageBps,
   hasMinOut |-> f.hasMinOut, minAmountOut |-> amt,
   hasRef |-> f.hasRef, refBps |-> f.refBps,
   hasMeta |-> hasMeta, amount0 |-> a0, amount1 |-> a1, lpAmount |-> lp]

\* the amounts each form is submitted with
FormAmounts(f) ==
  IF f.hasSlippage /\ f.slippageBps <= BpsDenom THEN {1}
  ELSE IF f.hasSlippage \/ f.hasRef THEN 1 .. MaxAmt
  ELSE Amounts

SwapInstructions ==
  UNION {{Instruction("swap", pr[1], pr[2], "hive:bob", f, amt, FALSE, 0, 0, 0) :
            pr \in SwapPairs, amt \in FormAmounts(f)} : f \in RouterSwapForms}
  \cup {Instruction("swap", "HBD", "HIVE", "hive:bob", NoForm, 0, FALSE, 0, 0, 0),
        Instruction("swap", "BTC", "HIVE", "hive:bob", NoForm, 0, FALSE, 0, 0, 0)}

DepositInstructions ==
  {Instruction("deposit", pr[1], pr[2], who, NoForm, 0, TRUE, a0, a1, 0) :
     pr \in LiquidityPairs, who \in Providers, a0 \in Amounts, a1 \in Amounts}
  \cup {Instruction("deposit", "HBD", "HIVE", who, NoForm, 0, FALSE, 0, 0, 0) :
          who \in Providers}

WithdrawalInstructions ==
  {Instruction("withdrawal", pr[1], pr[2], who, NoForm, 0, TRUE, 0, 0, lp) :
     pr \in LiquidityPairs, who \in Providers, lp \in Amounts}
  \cup {Instruction("withdrawal", "HBD", "HIVE", who, NoForm, 0, FALSE, 0, 0, 0) :
          who \in Providers}

OtherInstructions ==
  {Instruction(t, "HBD", "HIVE", who, NoForm, 0, FALSE, 0, 0, 0) :
     t \in {"", "transfer"}, who \in {"", "hive:bob"}}

\* whether the host accepts a zero-amount draw or transfer matters only to
\* an instruction that moves a zero amount
ZeroChoices(ins) == IF ins.minAmountOut = 0 THEN BOOLEAN ELSE {TRUE}

\* One transaction on the router.  init is called once, when the contract is
\* deployed, and pools are created after it.
CallRouterInit == nextPoolId = 0 /\ RouterInit

CallCreatePool ==
  /\ nextPoolId \in PoolIds
  /\ \E pr \in RouterPools : CreatePool(pr[1], pr[2], pr[3])

CallSwap ==
  \E ins \in SwapInstructions : \E zeroOk \in ZeroChoices(ins) :
    Execute(ins, zeroOk)

CallDeposit == \E ins \in DepositInstructions : Execute(ins, TRUE)

CallWithdrawal ==
  \E sender \in Accounts, ins \in WithdrawalInstructions :
    ExecuteAs(sender, ins, TRUE)

CallOther == \E ins \in OtherInstructions : Execute(ins, TRUE)

CallClaimFees ==
  \E sender \in Callers, poolId \in PoolIds : RouterClaimFees(sender, poolId)

\* --------------------------------------- router: up to MaxPools small pools
RBounded ==
  /\ nextPoolId <= MaxPools + 1
  /\ \A i \in PoolIds :
       /\ pools[i].reserve0 <= MaxRouterReserve
       /\ pools[i].reserve1 <= MaxRouterReserve
       /\ pools[i].totalLp <= MaxRouterReserve
       /\ pools[i].fee0 <= MaxFeeBucket /\ pools[i].fee1 <= MaxFeeBucket
       /\ \A a \in Providers : poolLp[i][a] <= MaxRouterReserve
  /\ \A a \in RouterAssets : rbank[a] <= MaxRouterReserve

DoRouterInit == CallRouterInit /\ RBounded' /\ UNCHANGED <<pvars, svars, ivars>>
DoCreatePool == CallCreatePool /\ RBounded' /\ UNCHANGED <<pvars, svars, ivars>>
DoSwapInstruction == CallSwap /\ RBounded' /\ UNCHANGED <<pvars, svars, ivars>>
DoDepositInstruction == CallDeposit /\ RBounded' /\ UNCHANGED <<pvars, svars, ivars>>
DoWithdrawalInstruction == CallWithdrawal /\ RBounded' /\ UNCHANGED <<pvars, svars, ivars>>
DoOtherInstruction == CallOther /\ RBounded' /\ UNCHANGED <<pvars, svars, ivars>>
DoRouterClaimFees == CallClaimFees /\ RBounded' /\ UNCHANGED <<pvars, svars, ivars>>

RouterNext ==
  \/ DoRouterInit
  \/ DoCreatePool
  \/ DoSwapInstruction
  \/ DoDepositInstruction
  \/ DoWithdrawalInstruction
  \/ DoOtherInstruction
  \/ DoRouterClaimFees

RouterSpec == Init /\ [][RouterNext]_vars

\* ------------------------------------------ router: one pool, larger amounts
DirectBounded ==
  /\ nextPoolId <= 2
  /\ pools[1].reserve0 <= MaxDirectReserve
  /\ pools[1].reserve1 <= MaxDirectReserve
  /\ pools[1].totalLp <= MaxDirectReserve
  /\ pools[1].fee0 <= MaxFeeBucket /\ pools[1].fee1 <= MaxFeeBucket
  /\ \A a \in Providers : poolLp[1][a] <= MaxDirectReserve
  /\ \A a \in RouterAssets : rbank[a] <= MaxDirectReserve

DirectRouterInit == CallRouterInit /\ DirectBounded' /\ UNCHANGED <<pvars, svars, ivars>>
DirectCreatePool == CallCreatePool /\ DirectBounded' /\ UNCHANGED <<pvars, svars, ivars>>
DirectSwapInstruction == CallSwap /\ DirectBounded' /\ UNCHANGED <<pvars, svars, ivars>>
DirectDepositInstruction == CallDeposit /\ DirectBounded' /\ UNCHANGED <<pvars, svars, ivars>>
DirectWithdrawalInstruction ==
  CallWithdrawal /\ DirectBounded' /\ UNCHANGED <<pvars, svars, ivars>>
DirectOtherInstruction == CallOther /\ DirectBounded' /\ UNCHANGED <<pvars, svars, ivars>>
DirectClaimFees == CallClaimFees /\ DirectBounded' /\ UNCHANGED <<pvars, svars, ivars>>

DirectNext ==
  \/ DirectRouterInit
  \/ DirectCreatePool
  \/ DirectSwapInstruction
  \/ DirectDepositInstruction
  \/ DirectWithdrawalInstruction
  \/ DirectOtherInstruction
  \/ DirectClaimFees

DirectSpec == Init /\ [][DirectNext]_vars

\* ------------------------------------- single-pair: behaviours, wide amounts
\* the pair contract with reserves whose product passes the machine word
WideReserve == 2 ^ (WordBits \div 2 + 1)
WideAmounts == {WideReserve, WideReserve + 2}
WideSwapAmounts == {1, 2, WideReserve}

\* the explored range: up to two deposits
WideBounded ==
  /\ pool.reserve0 <= 2 * WideReserve + 4
  /\ pool.reserve1 <= 2 * WideReserve + 4
  /\ pool.totalLP <= 2 * WideReserve + 4
  /\ \A a \in PairAssets : bank[a] <= 2 * WideReserve + 4

WidePoolInit ==
  /\ pool.asset0 = ""
  /\ \E o \in PairOrders : PoolInit("hive:bob", o[1], o[2], -1)
  /\ WideBounded' /\ UNCHANGED <<rvars, svars, ivars>>

WideAddLiquidity ==
  /\ last.op # "remove_liquidity"
  /\ \E a0 \in WideAmounts, a1 \in WideAmounts :
       AddLiquidity("hive:alice", a0, a1)
  /\ WideBounded' /\ UNCHANGED <<rvars, svars, ivars>>

\* swaps are explored on a pool as its last deposit left it
WideSwap ==
  /\ last = Call("add_liquidity", TRUE)
  /\ \E dir \in {"0to1", "1to0"}, amt \in WideSwapAmounts :
       Swap("hive:bob", dir, amt, 0, FALSE, 0)
  /\ WideBounded' /\ UNCHANGED <<rvars, svars, ivars>>

\* withdrawals are explored on a pool as its last deposit left it
WideRemoveLiquidity ==
  /\ last = Call("add_liquidity", TRUE)
  /\ \E lp \in {WideReserve \div 2, lps["hive:alice"]} :
       RemoveLiquidity("hive:alice", lp)
  /\ WideBounded' /\ UNCHANGED <<rvars, svars, ivars>>

WideNext ==
  \/ WidePoolInit
  \/ WideAddLiquidity
  \/ WideSwap
  \/ WideRemoveLiquidity

WideSpec == Init /\ [][WideNext]_vars

\* ------------------------------------ single-pair: behaviours, mid amounts
\* One deployment of the pair contract with deposits and swaps large enough
\* for the base fee and the referral to be positive, and small enough for
\* every product to stay within the word.
TradeFees == {-1, HighFeeBps}
TradeDeposits == {<<40, 40>>, <<100, 50>>, <<60, 90>>, <<1, 1>>}
TradeAmounts == {1, 10, 50, 100}
\* <<hasRef, refBps>>
TradeRefs == {<<FALSE, 0>>, <<TRUE, 0>>, <<TRUE, 1>>, <<TRUE, MaxRefBps>>,
              <<TRUE, MaxRefBps + 1>>}
\* <<dir, amountIn, hasRef, refBps>>
TradeCalls ==
  {<<dir, amt, r[1], r[2]>> :
     dir \in {"0to1", "1to0"}, amt \in TradeAmounts, r \in TradeRefs}

\* what the swap would hand the trader were no minimum given
TradeOutput(call) ==
  SwapCalc(call[1], call[2], 0, IF call[3] THEN call[4] ELSE 0).user

\* the minimum outputs a call is submitted with: none, the output itself and
\* one more than it
TradeMinOuts(call) == {0, TradeOutput(call), TradeOutput(call) + 1}

TradeBounded ==
  /\ pool.reserve0 <= MaxTradeReserve /\ pool.reserve1 <= MaxTradeReserve
  /\ pool.totalLP <= MaxTradeReserve
  /\ \A a \in PairAssets : bank[a] <= MaxTradeReserve + MaxTradeReserve

TradePoolInit ==
  /\ pool.asset0 = ""
  /\ \E o \in PairOrders, f \in TradeFees : PoolInit("hive:bob", o[1], o[2], f)
  /\ TradeBounded' /\ UNCHANGED <<rvars, svars, ivars>>

\* a first deposit by one provider, then at most one by the other
TradeAddLiquidity ==
  /\ \/ last.op = "init"
     \/ last.op = "add_liquidity" /\ lps["hive:bob"] = 0
  /\ \E d \in TradeDeposits :
       AddLiquidity(IF pool.totalLP = 0 THEN "hive:alice" ELSE "hive:bob",
                    d[1], d[2])
  /\ TradeBounded' /\ UNCHANGED <<rvars, svars, ivars>>

TradeSwap ==
  /\ last = Call("add_liquidity", TRUE)
  /\ \E call \in TradeCalls : \E minOut \in TradeMinOuts(call) :
       SwapLogged("hive:bob", call[1], call[2], minOut, call[3], call[4])
  /\ TradeBounded' /\ UNCHANGED <<rvars, svars, ivars>>

TradeLpAmounts(addr) ==
  {0, lps[addr] \div 2, lps[addr], lps[addr] + 1}

TradeRemoveLiquidity ==
  /\ last.ok /\ last.op \in {"add_liquidity", "swap"}
  /\ \E sender \in Users : \E lp \in TradeLpAmounts(sender) :
       RemoveLiquidity(sender, lp)
  /\ TradeBounded' /\ UNCHANGED <<rvars, svars, ivars>>

TradeNext ==
  \/ TradePoolInit
  \/ TradeAddLiquidity
  \/ TradeSwap
  \/ TradeRemoveLiquidity

TradeSpec == Init /\ [][TradeNext]_vars

\* ------------------------------ single-pair: behaviours, slippage share set
\* One deployment whose slippage parameters the system sets before the first
\* deposit, then one deposit and swaps on the pool as the deposit left it.
SlipParams == {<<0, BpsDenom>>, <<50, 5000>>}
SlipDeposits == {<<10, 19>>, <<19, 10>>, <<40, 40>>, <<100, 50>>, <<7, 3>>}
SlipAmounts == {1, 2, 3, 10, 50}

SlipPoolInit ==
  /\ pool.asset0 = ""
  /\ \E o \in PairOrders : PoolInit("hive:bob", o[1], o[2], -1)
  /\ UNCHANGED <<rvars, svars, ivars>>

SlipSetSlipParams ==
  /\ last.op = "init"
  /\ \E p \in SlipParams : SetSlipParams("system:consensus", p[1], p[2])
  /\ UNCHANGED <<rvars, svars, ivars>>

SlipAddLiquidity ==
  /\ last.op = "set_slip_params"
  /\ \E d \in SlipDeposits : AddLiquidity("hive:alice", d[1], d[2])
  /\ UNCHANGED <<rvars, svars, ivars>>

SlipSwap ==
  /\ last = Call("add_liquidity", TRUE)
  /\ \E dir \in {"0to1", "1to0"}, amt \in SlipAmounts :
       SwapLogged("hive:bob", dir, amt, 0, FALSE, 0)
  /\ UNCHANGED <<rvars, svars, ivars>>

SlipNext ==
  \/ SlipPoolInit
  \/ SlipSetSlipParams
  \/ SlipAddLiquidity
  \/ SlipSwap

SlipSpec == Init /\ [][SlipNext]_vars

\* --------------------------- single-pair: behaviours, withdrawal in steps
\* One deployment, up to two deposits, and withdrawals taken statement by
\* statement, with calls back into the contract from the transfers.
StepPoolInit ==
  /\ pool.asset0 = ""
  /\ \E o \in PairOrders : PoolInit("hive:bob", o[1], o[2], -1)
  /\ TradeBounded' /\ UNCHANGED <<rvars, svars, ivars>>

StepAddLiquidity ==
  /\ \/ last.op = "init"
     \/ last.op = "add_liquidity" /\ lps["hive:bob"] = 0
  /\ \E d \in TradeDeposits :
       AddLiquidity(IF pool.totalLP = 0 THEN "hive:alice" ELSE "hive:bob",
                    d[1], d[2])
  /\ TradeBounded' /\ UNCHANGED <<rvars, svars, ivars>>

StepRemoveLiquidity ==
  /\ ~InTransfer
  /\ last.ok /\ last.op \in {"add_liquidity", "remove_liquidity"}
  /\ \E sender \in Users : \E lp \in TradeLpAmounts(sender) :
       RemoveBookKeep(sender, lp)
  /\ UNCHANGED <<rvars, svars, ivars>>

StepTransfer0 ==
  /\ InTransfer /\ last.args[1] = "transfer0"
  /\ RemoveTransfer0
  /\ UNCHANGED <<rvars, svars, ivars>>

StepTransfer1 ==
  /\ InTransfer /\ last.args[1] = "transfer1"
  /\ RemoveTransfer1
  /\ UNCHANGED <<rvars, svars, ivars>>

\* a call back is made from a transfer that is made
StepReenter ==
  /\ InTransfer
  /\ Signed(IF last.args[1] = "transfer0" THEN last.args[4]
            ELSE last.args[5]) > 0
  /\ \E lp \in TradeLpAmounts(last.args[2]) : RemoveReentered(lp)
  /\ UNCHANGED <<rvars, svars, ivars>>

StepNext ==
  \/ StepPoolInit
  \/ StepAddLiquidity
  \/ StepRemoveLiquidity
  \/ StepTransfer0
  \/ StepTransfer1
  \/ StepReenter

StepSpec == Init /\ [][StepNext]_vars

\* ----------------------------------------------- router service: behaviours
\* reserves and fee the querier may report for a pool
ServiceShapes ==
  {<<4, 8, 8>>, <<0, 8, 8>>, <<4, 8, 0>>, <<4, 8, MaxBaseFeeBps>>,
   <<400, 400, 8>>, <<MaxServiceReserve, MaxServiceReserve, 8>>}

BridgeShapes ==
  {<<4, 8, 8>>, <<8, 4, 8>>, <<400, 400, 8>>,
   <<MaxServiceReserve, MaxServiceReserve, 8>>}

PoolChoices(id, a0, a1, shapes) ==
  {NoServicePool}
    \cup {PoolInfoWithReserves(id, a0, a1, s[1], s[2], s[3]) : s \in shapes}

\* the queriers set on the service: every combination of a BTC/HBD pool, an
\* HBD/HIVE pool and a direct BTC/HIVE pool, each present or not
ServiceQueriers ==
  {[nil |-> FALSE,
    pools |-> [id \in ServicePoolIds |->
                 CASE id = "btc-hbd-pool" -> bh
                   [] id = "hive-hbd-pool" -> hh
                   [] id = "btc-hive-pool" -> bv
                   [] OTHER -> NoServicePool]] :
     bh \in PoolChoices("btc-hbd-pool", "BTC", "HBD", ServiceShapes),
     hh \in PoolChoices("hive-hbd-pool", "HBD", "HIVE", BridgeShapes),
     bv \in PoolChoices("btc-hive-pool", "BTC", "HIVE", {<<4, 8, 8>>})}

\* the largest input the drain check admits on the largest reserve
DrainLimit == MulW(MaxServiceReserve, MaxSwapPercent) \div 100

ServiceAmounts ==
  {0, 1, 2, 3, 106, 200, DrainLimit, DrainLimit + 1,
   MaxServiceReserve \div 2 + 1, Word \div 4 + 1}

ServicePairs ==
  {<<"BTC", "HBD">>, <<"HBD", "BTC">>, <<"HBD", "HIVE">>, <<"BTC", "HIVE">>,
   <<"HIVE", "BTC">>, <<"BTC", "BTC">>, <<"ETH", "HIVE">>, <<"BTC", "ETH">>}

\* <<MinAmountOut, MaxSlippage, MiddleOutRatio>> of a request
ServiceForms ==
  {<<0, 50, 0>>, <<0, 0, 0>>, <<3, 50, 0>>, <<3, BpsDenom, 0>>,
   <<0, 50, RatioUnit>>, <<2, BpsDenom, RatioUnit>>}

ServiceRequests ==
  {SwapParams(amt, pr[1], pr[2], f[1], f[2], f[3]) :
     amt \in ServiceAmounts, pr \in ServicePairs, f \in ServiceForms}

\* the querier is set on a new service before its first request
DoSetPoolQuerier ==
  /\ svcLast.op = "none"
  /\ \E q \in ServiceQueriers : SetPoolQuerier(q)
  /\ UNCHANGED <<pvars, rvars, ivars>>

\* a request reads the querier and nothing a former request left behind, so
\* the exploration follows one request per configured service
DoComputeRoute ==
  /\ svcLast.op = "none"
  /\ \E params \in ServiceRequests : ComputeRoute(params)
  /\ UNCHANGED <<pvars, rvars, ivars>>

ServiceNext ==
  \/ DoSetPoolQuerier
  \/ DoComputeRoute

ServiceSpec == Init /\ [][ServiceNext]_vars

\* ------------------------------------------- instruction schemas: behaviours
\* a parse reads its memo and nothing a former call left behind, so the
\* exploration follows one call from the package as loaded
RawAbsent == [present |-> FALSE, numeric |-> FALSE, value |-> 0]

RawInt(v) == [present |-> TRUE, numeric |-> TRUE, value |-> v]

RawWord == [present |-> TRUE, numeric |-> FALSE, value |-> 0]

MemoShapes == {"object", "braces", "query", "text"}
MemoTypes == {"swap", "deposit", "invalid", ""}
MemoVersions == {"1.0.0", ""}
MemoAssetsIn == {"BTC", "HBD", ""}
MemoAssetsOut == {"HBD", ""}
MemoRecipients == {"alice", ""}
MemoSlippages ==
  {RawAbsent, RawInt(50), RawInt(BpsDenom), RawInt(BpsDenom + 1), RawInt(-1),
   RawWord}
MemoRefs == {RawAbsent, RawInt(0), RawInt(BpsDenom + 1)}

Memos ==
  [shape: MemoShapes, type: MemoTypes, version: MemoVersions,
   assetIn: MemoAssetsIn, assetOut: MemoAssetsOut,
   recipient: MemoRecipients, slippage: MemoSlippages,
   beneficiary: {""}, refBps: MemoRefs]

DoParseFromJSON ==
  /\ parsed.op = "none"
  /\ \E memo \in Memos :
       parsed' = [op |-> "ParseFromJSON", memo |-> memo,
                  result |-> ParseFromJSON(memo)]
  /\ UNCHANGED <<pvars, rvars, svars>>

DoParseFromQueryParams ==
  /\ parsed.op = "none"
  /\ \E memo \in Memos :
       parsed' = [op |-> "ParseFromQueryParams", memo |-> memo,
                  result |-> ParseFromQueryParams(memo)]
  /\ UNCHANGED <<pvars, rvars, svars>>

DoParseFromMemo ==
  /\ parsed.op = "none"
  /\ \E memo \in Memos :
       parsed' = [op |-> "ParseFromMemo", memo |-> memo,
                  result |-> ParseFromMemo(memo)]
  /\ UNCHANGED <<pvars, rvars, svars>>

SchemaNext ==
  \/ DoParseFromJSON
  \/ DoParseFromQueryParams
  \/ DoParseFromMemo

SchemaSpec == Init /\ [][SchemaNext]_vars

\* ------------------------------------------------------------- properties
\* the amounts a successful execute swap moved: direct when a pool holds the
\* pair, two-hop through HBD otherwise
IsDirect(ins) == findPool(ins.assetIn, ins.assetOut) # 0
DirectPool(ins) == findPool(ins.assetIn, ins.assetOut)
SwapSucceeds(ins, zeroOk) ==
  Execute(ins, zeroOk) /\ ExecuteReturn(ins, zeroOk).ret = ""

\* C1: every successful swap (the pair contract's Swap in either direction,
\* the router's direct swap) leaves the product of the pool's reserves
\* greater than or equal to the product before the swap.
C1_ProductNonDecreasing ==
  [][/\ (DoSwap /\ last'.ok) =>
          pool'.reserve0 * pool'.reserve1 >= pool.reserve0 * pool.reserve1
     /\ \A ins \in SwapInstructions, zeroOk \in BOOLEAN :
          (SwapSucceeds(ins, zeroOk) /\ IsDirect(ins)) =>
            pools'[DirectPool(ins)].reserve0 * pools'[DirectPool(ins)].reserve1
              >= pools[DirectPool(ins)].reserve0 * pools[DirectPool(ins)].reserve1
    ]_vars

\* C2: in every reachable state of the pair contract the liquidity-claim
\* balances of all accounts add up to the pool's total claim supply.
SumLP == lps["hive:alice"] + lps["hive:bob"] + lps["system:consensus"]
C2_ClaimsSumToTotal == SumLP = pool.totalLP

\* C6: in every reachable state of the pair contract the total claim supply
\* is zero if and only if both reserves are zero.
C6_ZeroClaimsIffZeroReserves ==
  (pool.totalLP = 0) <=> (pool.reserve0 = 0 /\ pool.reserve1 = 0)

\* C7: in every reachable state every pool's fee rate is below 10000 bps,
\* in the pair contract and in every pool of the router.
C7_FeeBelowDenominator ==
  /\ pool.baseFeeBps < BpsDenom
  /\ \A i \in PoolIds : pools[i].fee < BpsDenom

\* C8: when AddLiquidity(a0, a1) succeeds and mints m claims, a
\* RemoveLiquidity(m) issued next by the same provider pays out at most
\* (a0, a1) and brings the total claim supply back to its value before the
\* deposit.
C8_AddRemoveRoundTrip ==
  [][\A sender \in Users, a0 \in Amounts, a1 \in Amounts :
       (AddLiquidity(sender, a0, a1) /\ last'.ok) =>
         LET m == AddLiquidityCalc(a0, a1).minted
             r0 == pool'.reserve0
             r1 == pool'.reserve1
             total == pool'.totalLP
         IN /\ m <= lps'[sender]
            /\ MulW(r0, m) \div total <= a0
            /\ MulW(r1, m) \div total <= a1
            /\ SubW(total, m) = pool.totalLP
    ]_vars

\* the two hops' pools of an instruction routed through HBD
HopPool1(ins) == findPool(ins.assetIn, "HBD")
HopPool2(ins) == findPool("HBD", ins.assetOut)

\* what a successful execute swap hands to the recipient
Delivered(ins) ==
  IF IsDirect(ins) THEN DirectSwapCalc(DirectPool(ins), ins).userOut
  ELSE TwoHopCalc(HopPool1(ins), HopPool2(ins), ins).amountOut

\* floor(amountIn * (10000 - feeBps) / 10000) over the integers
FeeFloor(amountIn, feeBps) == (amountIn * (BpsDenom - feeBps)) \div BpsDenom

\* C3: whenever an execute swap of the router (direct or two-hop) returns an
\* error, every pool's reserves, claim supply and fee buckets, and every
\* claim balance, are what they were before the call.
C3_SwapErrorLeavesPools ==
  [][(CallSwap /\ rlast'.ret = "error") => (pools' = pools /\ poolLp' = poolLp)
    ]_vars

\* C4: an execute swap of the router succeeds only if the amount delivered
\* to the recipient is at least the instruction's min_amount_out.
C4_MinAmountOutEnforced ==
  [][\A ins \in SwapInstructions, zeroOk \in BOOLEAN :
       (SwapSucceeds(ins, zeroOk) /\ ins.hasMinOut) =>
         Delivered(ins) >= ins.minAmountOut
    ]_vars

\* C5: every swap that succeeds, in the pair contract and in the router
\* (direct, and each hop of a two-hop), has 0 < amountOut < reserveOut.
C5_OutputWithinReserve ==
  [][/\ \A sender \in Traders, c \in SwapCalls :
          (/\ Swap(sender, c[1], c[2], c[3].minOut, c[3].hasRef, c[3].refBps)
           /\ last'.ok) =>
            LET refBpsU == IF c[3].hasRef THEN c[3].refBps ELSE 0
                k == IF c[1] = "0to1"
                     THEN Swap0to1Calc(c[2], c[3].minOut, refBpsU)
                     ELSE Swap1to0Calc(c[2], c[3].minOut, refBpsU)
                reserveOut == IF c[1] = "0to1" THEN pool.reserve1
                              ELSE pool.reserve0
            IN 0 < k.gross /\ k.gross < reserveOut
     /\ \A ins \in SwapInstructions, zeroOk \in BOOLEAN :
          SwapSucceeds(ins, zeroOk) =>
            IF IsDirect(ins)
            THEN LET c == DirectSwapCalc(DirectPool(ins), ins)
                 IN 0 < c.amountOut /\ c.amountOut < c.reserveOut
            ELSE LET c == TwoHopCalc(HopPool1(ins), HopPool2(ins), ins)
                 IN /\ 0 < c.amountIntermediate
                    /\ c.amountIntermediate < c.reserveOut1
                    /\ 0 < c.amountOut /\ c.amountOut < c.reserveOut2
    ]_vars

\* C9: an execute swap whose asset_in equals asset_out does not succeed, and
\* changes no pool record and moves no funds.
C9_SameAssetSwapRejected ==
  [][\A ins \in SwapInstructions, zeroOk \in BOOLEAN :
       (ins.assetIn = ins.assetOut /\ Execute(ins, zeroOk)) =>
         (rlast'.ret # "" /\ pools' = pools /\ rbank' = rbank)
    ]_vars

\* C10: a successful direct swap of the router adds
\* floor(amountIn * (10000 - feeBps) / 10000) to the input reserve (1 where
\* that floor is zero), in the direction asset0->asset1 and in the direction
\* asset1->asset0 alike.
C10_FeeOnInputEitherDirection ==
  [][\A ins \in SwapInstructions, zeroOk \in BOOLEAN :
       (SwapSucceeds(ins, zeroOk) /\ IsDirect(ins)) =>
         LET id == DirectPool(ins)
             fwd == DirectSwapCalc(id, ins).fwd
             added == IF fwd THEN pools'[id].reserve0 - pools[id].reserve0
                      ELSE pools'[id].reserve1 - pools[id].reserve1
             expected == FeeFloor(ins.minAmountOut, pools[id].fee)
         IN added = IF expected = 0 THEN 1 ELSE expected
    ]_vars

\* the executeDirectSwap calls of the last request
LastHops == {svcLast.hops[i] : i \in 1 .. Len(svcLast.hops)}

\* a hop asks for more than half of the input-side reserve it read
ExceedsHalf(hop) ==
  /\ hop.reserveIn > 0 /\ hop.reserveOut > 0
  /\ 2 * hop.params.AmountIn > hop.reserveIn

DrainError == "swap amount exceeds maximum allowed (50% of reserve)"

C12_RouterDrainProtection ==
  [][\A ins \in SwapInstructions, zeroOk \in BOOLEAN :
       (SwapSucceeds(ins, zeroOk) /\ IsDirect(ins)) =>
         LET c == DirectSwapCalc(DirectPool(ins), ins)
             reserveIn == IF c.fwd THEN pools[DirectPool(ins)].reserve0
                          ELSE pools[DirectPool(ins)].reserve1
         IN 2 * c.amountIn <= reserveIn
    ]_vars

\* C13: in the pool contracts' swap the constant-product steps do not wrap:
\* a swap that succeeds pays reserveOut - floor(reserveIn * reserveOut /
\* (reserveIn + effectiveIn)) as computed over the integers.
C13_ConstantProductExact ==
  [][\A dir \in {"0to1", "1to0"}, amt \in WideSwapAmounts :
       (Swap("hive:bob", dir, amt, 0, FALSE, 0) /\ last'.ok) =>
         LET c == IF dir = "0to1" THEN Swap0to1Calc(amt, 0, 0)
                  ELSE Swap1to0Calc(amt, 0, 0)
             rIn == IF dir = "0to1" THEN pool.reserve0 ELSE pool.reserve1
             rOut == IF dir = "0to1" THEN pool.reserve1 ELSE pool.reserve0
         IN c.gross = rOut - ((rIn * rOut) \div (rIn + c.dxEff))
    ]_vars

\* the exact constant-product output for an input of amountIn at feeBps
ExactOut(reserveIn, reserveOut, amountIn, feeBps) ==
  reserveOut
    - ((reserveIn * reserveOut) \div (reserveIn + FeeFloor(amountIn, feeBps)))

\* C14: in the router service the AmountOut of every hop that succeeds is
\* reserveOut - floor(reserveIn * reserveOut / (reserveIn + floor(amountIn *
\* (10000 - feeBps) / 10000))) as computed over the integers.
C14_ServiceOutputExact ==
  \A hop \in LastHops :
    hop.result.Success =>
      hop.result.AmountOut =
        ExactOut(hop.reserveIn, hop.reserveOut, hop.params.AmountIn,
                 hop.feeBps)

\* C15: a swap whose effective input after the base fee rounds to zero goes
\* on with an effective input of 1 and, when it succeeds, pays strictly less
\* than the output reserve.
C15_ZeroEffectiveInputClamped ==
  [][\A ins \in SwapInstructions, zeroOk \in BOOLEAN :
       LET c == DirectSwapCalc(DirectPool(ins), ins)
       IN (/\ SwapSucceeds(ins, zeroOk) /\ IsDirect(ins) /\ c.fwd
           /\ FeeFloor(c.amountIn, pools[DirectPool(ins)].fee) = 0) =>
            (c.dIn = 1 /\ c.amountOut < c.reserveOut)
    ]_vars

\* the last request went, or had to go, through HBD
TwoHopRequest ==
  /\ svcLast.op = "ComputeRoute"
  /\ svcLast.params.AssetIn # svcLast.params.AssetOut
  /\ svcLast.params.AssetIn # "HBD" /\ svcLast.params.AssetOut # "HBD"

\* C16: with MiddleOutRatio = 0 the first hop of a two-hop route is executed
\* with a minimum output that only floors at zero (0, or the 1 that
\* calculateMinOutput returns in place of 0), not one derived from the
\* expected bridge-asset amount.
C16_FirstHopFloorsAtZero ==
  (/\ TwoHopRequest /\ svcLast.params.MiddleOutRatio = 0
   /\ Len(svcLast.hops) >= 1) =>
     svcLast.hops[1].params.MinAmountOut <= 1

FirstPoolMissing ==
  ~ServiceFindPool(poolQuerier, svcLast.params.AssetIn, "HBD").found
SecondPoolMissing ==
  ~ServiceFindPool(poolQuerier, "HBD", svcLast.params.AssetOut).found

\* C17: in a two-hop route, when a hop's pool is missing or a hop fails,
\* ExecuteSwap returns Success = false with an empty route, and no hop is
\* attempted after the failing step.
C17_TwoHopFailureStops ==
  TwoHopRequest =>
    /\ (\/ FirstPoolMissing \/ SecondPoolMissing
        \/ \E hop \in LastHops : ~hop.result.Success) =>
         (~svcLast.result.Success /\ Len(svcLast.result.Route) = 0)
    /\ (FirstPoolMissing \/ SecondPoolMissing) => svcLast.hops = <<>>
    /\ \A i \in 1 .. Len(svcLast.hops) - 1 : svcLast.hops[i].result.Success

C17_Witness ==
  /\ TwoHopRequest
  /\ Len(svcLast.hops) = 1
  /\ ~svcLast.hops[1].result.Success
  /\ ~svcLast.result.Success /\ svcLast.result.Route = <<>>

\* C18: when a direct pool exists for (assetIn, assetOut), ExecuteSwap
\* executes a single direct swap on it; the two-hop route through HBD is
\* attempted only when no direct pool exists.
C18_DirectPoolPreferred ==
  (/\ svcLast.op = "ComputeRoute"
   /\ svcLast.params.AssetIn # svcLast.params.AssetOut
   /\ ServiceFindPool(poolQuerier, svcLast.params.AssetIn,
                      svcLast.params.AssetOut).found) =>
     /\ Len(svcLast.hops) = 1
     /\ svcLast.hops[1].params.AssetIn = svcLast.params.AssetIn
     /\ svcLast.hops[1].params.AssetOut = svcLast.params.AssetOut

\* a hop that got as far as the fee step of executeDirectSwap
ReachedFee(hop) ==
  \/ hop.result.Success
  \/ hop.result.ErrorMessage \in
       {"swap amount too small after fees",
        "invalid swap output calculation: result out of bounds",
        "swap output is zero",
        "invalid swap output calculation: output exceeds reserve",
        "slippage tolerance exceeded"}

\* calculateExpectedOutput on the pool and amount of a hop
Projected(hop) ==
  calculateExpectedOutput(poolQuerier, hop.params.AmountIn,
    ServiceFindPool(poolQuerier, hop.params.AssetIn,
                    hop.params.AssetOut).ContractId,
    hop.params.AssetIn, hop.params.AssetOut)

\* C19: for the same pool and amountIn, calculateExpectedOutput and
\* executeDirectSwap compute the same effective input after fee and the
\* same amountOut.
C19_ProjectionMirrorsSwap ==
  \A hop \in LastHops :
    ReachedFee(hop) =>
      /\ Projected(hop).amountInAfterFee = hop.amountInAfterFee
      /\ hop.result.Success =>
           (Projected(hop).ok /\ Projected(hop).out = hop.result.AmountOut)

\* C20: a two-hop route that reports success has a final AmountOut of at
\* least the caller's MinAmountOut and at least the computed slippage
\* minimum; its second hop ran with the larger of the two as its minimum.
C20_TwoHopFinalMinimum ==
  (TwoHopRequest /\ svcLast.result.Success) =>
    /\ Len(svcLast.hops) = 2
    /\ svcLast.result.AmountOut >= svcLast.params.MinAmountOut
    /\ svcLast.result.AmountOut >= svcLast.plan.computedMinFinal
    /\ svcLast.hops[2].params.MinAmountOut =
         max64i(svcLast.plan.computedMinFinal, svcLast.params.MinAmountOut)

C20_Witness ==
  /\ TwoHopRequest /\ svcLast.result.Success
  /\ svcLast.params.MinAmountOut > svcLast.plan.computedMinFinal
  /\ svcLast.result.AmountOut >= svcLast.params.MinAmountOut

\* ---- single-pair swaps with a fee, a referral and a minimum (TradeSpec)
TradeStep(call, minOut) ==
  SwapLogged("hive:bob", call[1], call[2], minOut, call[3], call[4])

InAsset(dir) == IF dir = "0to1" THEN pool.asset0 ELSE pool.asset1
OutAsset(dir) == IF dir = "0to1" THEN pool.asset1 ELSE pool.asset0
ReserveIn(p, dir) == IF dir = "0to1" THEN p.reserve0 ELSE p.reserve1
ReserveOut(p, dir) == IF dir = "0to1" THEN p.reserve1 ELSE p.reserve0
\* the fee bucket of the HBD side
HbdFee(p) == IF isHbd(p.asset0) THEN p.fee0 ELSE p.fee1

\* floor(amountIn * (10000 - feeBps) / 10000), an input that rounds to zero
\* counting as 1
EffectiveIn(amountIn, feeBps) ==
  IF FeeFloor(amountIn, feeBps) = 0 THEN 1 ELSE FeeFloor(amountIn, feeBps)

\* the same swap with no referral and no minimum
PlainSwap(call) == SwapCalc(call[1], call[2], 0, 0)

\* C21: a successful Swap whose input is HBD and which names a referral
\* beneficiary gives the trader the output of, and leaves the reserves of,
\* the same swap without referral; the beneficiary receives
\* floor(baseFee * refBps / 10000) and the HBD fee bucket grows by baseFee
\* minus that referral.
C21_ReferralFromBaseFee ==
  [][\A call \in TradeCalls : \A minOut \in TradeMinOuts(call) :
       (/\ TradeStep(call, minOut) /\ last'.ok
        /\ call[3] /\ isHbd(InAsset(call[1]))) =>
         LET c == SwapCalc(call[1], call[2], minOut, call[4])
             baseFee == call[2] - EffectiveIn(call[2], pool.baseFeeBps)
             ref == (baseFee * call[4]) \div BpsDenom
         IN /\ c.user = PlainSwap(call).user
            /\ pool'.reserve0 = PlainSwap(call).reserve0
            /\ pool'.reserve1 = PlainSwap(call).reserve1
            /\ c.refOut = ref
            /\ HbdFee(pool') = HbdFee(pool) + baseFee - ref
    ]_vars

\* C22: a successful Swap whose output is HBD and which names a referral
\* beneficiary pays the beneficiary floor(totalOut * refBps / 10000), the
\* trader totalOut minus that, takes exactly totalOut from the output
\* reserve and changes no fee bucket.
C22_ReferralFromOutput ==
  [][\A call \in TradeCalls : \A minOut \in TradeMinOuts(call) :
       (/\ TradeStep(call, minOut) /\ last'.ok
        /\ call[3] /\ isHbd(OutAsset(call[1]))) =>
         LET c == SwapCalc(call[1], call[2], minOut, call[4])
             totalOut == PlainSwap(call).user
             ref == (totalOut * call[4]) \div BpsDenom
         IN /\ c.refOut = ref
            /\ c.user = totalOut - ref
            /\ ReserveOut(pool', call[1]) = ReserveOut(pool, call[1]) - totalOut
            /\ pool'.fee0 = pool.fee0 /\ pool'.fee1 = pool.fee1
    ]_vars

\* C23: a Swap with referral fields and ref_bps 0 or 1001 is rejected and
\* changes nothing; with ref_bps 1 or 1000 it is accepted, that is, it
\* succeeds whenever the same swap without referral does.
C23_ReferralBounds ==
  [][\A call \in TradeCalls : \A minOut \in TradeMinOuts(call) :
       (TradeStep(call, minOut) /\ call[3]) =>
         /\ call[4] \in {0, MaxRefBps + 1} =>
              (~last'.ok /\ pool' = pool /\ lps' = lps /\ bank' = bank)
         /\ (call[4] \in {1, MaxRefBps} /\ minOut = 0) =>
              (last'.ok <=>
                 SwapCompletes(call[1], call[2], FALSE, 0, PlainSwap(call)))
    ]_vars

\* a swap turned down for its ref_bps of 0 that would have gone through
\* without the referral fields
C23_Witness ==
  /\ last.op = "swap" /\ ~last.ok
  /\ last.args[4] /\ last.args[5] = 0
  /\ SwapCompletes(last.args[1], last.args[2], FALSE, 0,
                   SwapCalc(last.args[1], last.args[2], 0, 0))

\* C25: a successful Swap without referral charges the base fee exactly
\* when its input asset is HBD, in either direction: the input reserve then
\* grows by floor(amountIn * (10000 - feeBps) / 10000) and the rest of the
\* input goes to the HBD fee bucket; for any other input the reserve grows
\* by amountIn and no fee bucket changes.
C25_BaseFeeOnHbdInput ==
  [][\A call \in TradeCalls : \A minOut \in TradeMinOuts(call) :
       (TradeStep(call, minOut) /\ last'.ok /\ ~call[3]) =>
         IF isHbd(InAsset(call[1]))
         THEN /\ ReserveIn(pool', call[1]) =
                   ReserveIn(pool, call[1])
                     + EffectiveIn(call[2], pool.baseFeeBps)
              /\ HbdFee(pool') =
                   HbdFee(pool) + call[2]
                     - EffectiveIn(call[2], pool.baseFeeBps)
         ELSE /\ ReserveIn(pool', call[1]) = ReserveIn(pool, call[1]) + call[2]
              /\ pool'.fee0 = pool.fee0 /\ pool'.fee1 = pool.fee1
    ]_vars

\* C26: a Swap whose final trader output is below minAmountOut fails and
\* leaves reserves, fee buckets and holdings as they were; the same swap
\* with minAmountOut equal to that output succeeds.
C26_MinOutEnforced ==
  [][\A call \in TradeCalls : \A minOut \in TradeMinOuts(call) :
       TradeStep(call, minOut) =>
         /\ minOut > TradeOutput(call) =>
              (~last'.ok /\ pool' = pool /\ bank' = bank)
         /\ (/\ minOut = TradeOutput(call)
             /\ SwapCompletes(call[1], call[2], call[3],
                  IF call[3] THEN call[4] ELSE 0,
                  SwapCalc(call[1], call[2], 0,
                           IF call[3] THEN call[4] ELSE 0))) => last'.ok
    ]_vars

\* a swap turned down only for asking one more than its output
C26_Witness ==
  /\ last.op = "swap" /\ ~last.ok
  /\ last.args[3] > 1
  /\ last.args[3] =
       SwapCalc(last.args[1], last.args[2], 0, last.args[5]).user + 1
  /\ SwapCompletes(last.args[1], last.args[2], last.args[4], last.args[5],
                   SwapCalc(last.args[1], last.args[2], 0, last.args[5]))

\* C24: an execute swap of the router that carries a beneficiary and a
\* ref_bps outside 1..1000 returns an error and changes no pool record and
\* moves no funds.
C24_RouterReferralBounds ==
  [][\A ins \in SwapInstructions, zeroOk \in BOOLEAN :
       (/\ Execute(ins, zeroOk)
        /\ ins.hasRef /\ ~(ins.refBps \in 1 .. MaxRefBps)) =>
         (rlast'.ret # "" /\ pools' = pools /\ rbank' = rbank)
    ]_vars

\* m is floor(sqrt(n))
IsFloorSqrt(m, n) == m * m <= n /\ (m + 1) * (m + 1) > n

\* C27: a successful AddLiquidity(a0, a1) on a pool with no claims mints
\* floor(sqrt(a0 * a1)) claims, adds them to the provider's balance and adds
\* a0 and a1 to the reserves.
C27_FirstDepositMint ==
  [][\A sender \in Users, a0 \in Amounts, a1 \in Amounts :
       (AddLiquidity(sender, a0, a1) /\ last'.ok /\ pool.totalLP = 0) =>
         /\ IsFloorSqrt(pool'.totalLP, a0 * a1)
         /\ lps'[sender] = lps[sender] + pool'.totalLP
         /\ pool'.reserve0 = pool.reserve0 + a0
         /\ pool'.reserve1 = pool.reserve1 + a1
    ]_vars

\* min(floor(a0 * total / r0), floor(a1 * total / r1)) over the integers
ProportionalMint(a0, a1) ==
  min64((a0 * pool.totalLP) \div pool.reserve0,
        (a1 * pool.totalLP) \div pool.reserve1)

\* C28: a successful AddLiquidity(a0, a1) on a pool with claims mints
\* min(floor(a0 * total / reserve0), floor(a1 * total / reserve1)) claims:
\* the total and the provider's balance grow by that, the reserves by a0
\* and a1.
C28_ProportionalMint ==
  [][\A a0 \in WideAmounts, a1 \in WideAmounts :
       (AddLiquidity("hive:alice", a0, a1) /\ last'.ok /\ pool.totalLP > 0) =>
         /\ pool'.totalLP = pool.totalLP + ProportionalMint(a0, a1)
         /\ lps'["hive:alice"] = lps["hive:alice"] + ProportionalMint(a0, a1)
         /\ pool'.reserve0 = pool.reserve0 + a0
         /\ pool'.reserve1 = pool.reserve1 + a1
    ]_vars

\* C29: a successful AddLiquidity on a pool with claims leaves reserve0 /
\* total and reserve1 / total each at least what they were before.
C29_NoDilution ==
  [][\A sender \in Users, d \in TradeDeposits :
       (AddLiquidity(sender, d[1], d[2]) /\ last'.ok /\ pool.totalLP > 0) =>
         /\ pool'.reserve0 * pool.totalLP >= pool.reserve0 * pool'.totalLP
         /\ pool'.reserve1 * pool.totalLP >= pool.reserve1 * pool'.totalLP
    ]_vars

\* a deposit of (100, 50) into a pool of (40, 40) with 40 claims
C29_Witness ==
  /\ last = Call("add_liquidity", TRUE)
  /\ lps["hive:alice"] = 40 /\ lps["hive:bob"] = 50
  /\ pool.reserve0 = 140 /\ pool.reserve1 = 90

\* C30: RemoveLiquidity(c) succeeds only if 0 < c <= the caller's balance
\* and the total is positive, and then pays floor(reserve0 * c / total) and
\* floor(reserve1 * c / total), taking them from the reserves and c from
\* the caller's balance and from the total.
C30_ProportionalWithdrawal ==
  [][\A lp \in {WideReserve \div 2, lps["hive:alice"]} :
       (RemoveLiquidity("hive:alice", lp) /\ last'.ok) =>
         /\ 0 < lp /\ lp <= lps["hive:alice"] /\ pool.totalLP > 0
         /\ pool'.reserve0 =
              pool.reserve0 - (pool.reserve0 * lp) \div pool.totalLP
         /\ pool'.reserve1 =
              pool.reserve1 - (pool.reserve1 * lp) \div pool.totalLP
         /\ bank'[pool.asset0] =
              bank[pool.asset0] - (pool.reserve0 * lp) \div pool.totalLP
         /\ bank'[pool.asset1] =
              bank[pool.asset1] - (pool.reserve1 * lp) \div pool.totalLP
         /\ lps'["hive:alice"] = lps["hive:alice"] - lp
         /\ pool'.totalLP = pool.totalLP - lp
    ]_vars

\* ---------------------------------------------- C31: writes before transfers
\* the frame of the withdrawal in progress
FrameSender == last.args[2]
FrameBurned == last.args[3] + last.args[6]
FrameSaved == [pool |-> last.args[7][1], lps |-> last.args[7][2],
               bank |-> last.args[7][3]]

\* C31: while RemoveLiquidity is at its transfers, the caller's claim balance,
\* the total and both reserves are already the reduced ones: at the first
\* transfer nothing has left the contract and the four values are the old
\* ones less the claims and the amounts of the call; and whatever calls come
\* back in from a transfer, the claims burned for the caller by the call and
\* by those calls together are no more than the caller held when the call
\* began.
C31_WritesBeforeTransfers ==
  InTransfer =>
    /\ lps[FrameSender] = FrameSaved.lps[FrameSender] - FrameBurned
    /\ FrameBurned <= FrameSaved.lps[FrameSender]
    /\ pool.totalLP = SubW(FrameSaved.pool.totalLP, FrameBurned)
    /\ (last.args[1] = "transfer0" /\ last.args[6] = 0) =>
         /\ bank = FrameSaved.bank
         /\ pool.reserve0 = SubW(FrameSaved.pool.reserve0, last.args[4])
         /\ pool.reserve1 = SubW(FrameSaved.pool.reserve1, last.args[5])

\* a call came back in during the first transfer and withdrew again, and the
\* outer call has reached its second transfer
C31_Witness ==
  /\ InTransfer
  /\ last.args[1] = "transfer1"
  /\ last.args[6] > 0
  /\ last.args[4] > 0


\* ------------------------------------------------- C32: claim_fees is guarded
\* the HBD fee bucket of the pool p
HbdBucket(p) ==
  IF isHbd(p.asset0) THEN p.fee0 ELSE IF isHbd(p.asset1) THEN p.fee1 ELSE 0

\* C32: claim_fees called by a caller that is not the system fails, moves no
\* funds and changes no fee bucket; a claim that succeeds was made by the
\* system, pays out exactly the HBD fee bucket and leaves that bucket at zero,
\* with reserves and claims untouched.
C32_ClaimFeesSystemOnly ==
  [][\A sender \in Callers :
       PoolClaimFees(sender) =>
         /\ sender \in Users =>
              ~last'.ok /\ UNCHANGED <<pool, lps, bank>>
         /\ last'.ok =>
              /\ sender \notin Users
              /\ HbdBucket(pool') = 0
              /\ bank'[AssetHbd] = bank[AssetHbd] - HbdBucket(pool)
              /\ pool' = [pool EXCEPT !.fee0 = pool'.fee0, !.fee1 = pool'.fee1]
              /\ UNCHANGED lps]_vars

\* the system has claimed a fee bucket that held something
C32_Witness ==
  /\ last.op = "claim_fees" /\ last.ok
  /\ last.args[1] = "system:consensus"
  /\ last.args[2] + last.args[3] > 0


\* ------------------------------------------- C33: a pool record is kept
\* C33: once the pool exists (its assets are set), no call changes its asset
\* pair, and a call of init changes none of its reserves, its claim supply
\* and its fee buckets.
C33_PoolRecordKept ==
  [][pool.asset0 # "" =>
       /\ pool'.asset0 = pool.asset0 /\ pool'.asset1 = pool.asset1
       /\ last'.op = "init" =>
            /\ pool'.reserve0 = pool.reserve0
            /\ pool'.reserve1 = pool.reserve1
            /\ pool'.totalLP = pool.totalLP
            /\ pool'.fee0 = pool.fee0 /\ pool'.fee1 = pool.fee1]_vars


\* ------------------------------------ C34: identical assets are rejected
\* C34: create_pool with asset0 = asset1 returns an error and writes nothing:
\* next_pool_id, every pool record, the claim balances and the holdings are
\* as before; and no pool record ever holds twice the same asset.
C34_IdenticalAssetsRejected ==
  [][/\ \A pr \in RouterPools :
          (CreatePool(pr[1], pr[2], pr[3]) /\ pr[1] = pr[2]) =>
            /\ rlast' = Ret("create_pool", "error")
            /\ UNCHANGED <<nextPoolId, pools, poolLp, rbank>>
     /\ \A i \in PoolIds :
          pools'[i].asset0 # "" => pools'[i].asset0 # pools'[i].asset1]_vars

\* create_pool has returned an error on a router that holds a pool and has
\* room for another
C34_Witness ==
  /\ rlast = Ret("create_pool", "error")
  /\ nextPoolId = 2
  /\ pools[1].asset0 # ""


\* ------------------------------------- C35: accepted instructions are valid
InstructionTypes == {"swap", "deposit", "withdrawal"}

\* an optional basis-point field is absent or within 0 .. 10000
BpsWithinBounds(field) ==
  field.set => (field.value >= 0 /\ field.value <= BpsDenom)

\* C35: every instruction a parser returns has assetIn # assetOut, a type
\* among swap, deposit and withdrawal, its five required fields non-empty,
\* and slippage_bps and ref_bps within 0 .. 10000.
C35_AcceptedInstructionValid ==
  (parsed.op # "none" /\ ~parsed.result.nil) =>
    LET s == parsed.result.instruction
    IN /\ s.AssetIn # s.AssetOut
       /\ s.InstructionType \in InstructionTypes
       /\ s.InstructionType # "" /\ s.SchemaVersion # "" /\ s.AssetIn # ""
       /\ s.AssetOut # "" /\ s.Recipient # ""
       /\ BpsWithinBounds(s.SlippageBps)
       /\ BpsWithinBounds(s.RefBps)


\* --------------------------------------- C36: the router's pools are backed
\* what pool i accounts for in asset a: its reserve and its fee bucket
PoolOwes(i, a) ==
  (IF pools[i].asset0 = a THEN pools[i].reserve0 + pools[i].fee0 ELSE 0)
  + (IF pools[i].asset1 = a THEN pools[i].reserve1 + pools[i].fee1 ELSE 0)

RECURSIVE PoolsOwe(_, _)
PoolsOwe(n, a) == IF n = 0 THEN 0 ELSE PoolOwes(n, a) + PoolsOwe(n - 1, a)

\* C36: for every asset the router contract holds at least the sum, over all
\* pools, of the reserves and fee buckets kept in that asset.
C36_RouterReservesBacked ==
  \A a \in RouterAssets : rbank[a] >= PoolsOwe(MaxPools, a)


\* ----------------------------------- C37: the pair's holdings are accounted
\* C37: once the pair contract has its assets, it holds of each of them
\* exactly the reserve plus the fee bucket, and no fee bucket is negative.
C37_CustodyMatchesBooks ==
  (pool.asset0 \in PairAssets /\ pool.asset1 \in PairAssets) =>
    /\ bank[pool.asset0] = pool.reserve0 + pool.fee0
    /\ bank[pool.asset1] = pool.reserve1 + pool.fee1
    /\ pool.fee0 >= 0 /\ pool.fee1 >= 0


\* ------------------------------- C38: claims are reduced by their owner only
\* C38: a withdrawal instruction lowers the claim balance of an account only
\* when that account or the system submitted it.
C38_OnlyOwnerReducesClaims ==
  [][\A sender \in Accounts, ins \in WithdrawalInstructions :
       \A i \in PoolIds, a \in Providers :
         (ExecuteAs(sender, ins, TRUE) /\ poolLp'[i][a] < poolLp[i][a]) =>
           (sender = a \/ isSystemSender(sender))]_vars


\* ------------------------------------ C39: the realized slippage never wraps
\* C39: in a swap made with a slippage share set, the realized slippage is
\* taken from an output that is no larger than the nominal output (the
\* difference nominal - amountOut does not wrap), and when the output is the
\* nominal one or more nothing is withheld from the trader.
C39_SlippageNeverWraps ==
  [][\A dir \in {"0to1", "1to0"}, amt \in SlipAmounts :
       (/\ SwapLogged("hive:bob", dir, amt, 0, FALSE, 0)
        /\ last'.ok
        /\ pool.slipShareBps > 0) =>
         LET c == SwapCalc(dir, amt, 0, 0)
             nominal == SlipNominal(c.dxEff, ReserveIn(pool, dir),
                                    ReserveOut(pool, dir))
         IN nominal > 0 =>
              /\ SubW(nominal, c.gross) = nominal - c.gross
              /\ SlipBps(c.gross, nominal) <= BpsDenom
              /\ c.gross >= nominal => c.total = c.gross]_vars


\* -------------------------------- C40: the system-only calls of the pair
\* C40: set_base_fee, set_slip_params and si_withdraw made by a caller that
\* is not the system fail and leave the fee parameters, the reserves, the
\* claim balances and the total claims as they were; and once the pool is
\* set up, a step that changes a fee parameter is a set_base_fee or
\* set_slip_params call of the system, and a step that withdraws the
\* liquidity of an account through si_withdraw is a call of the system.
FeeParams(p) == <<p.baseFeeBps, p.slipBaselineBps, p.slipShareBps>>

C40_SystemOnlyCalls ==
  [][/\ \A sender \in Users :
          /\ \A v \in FeeArgs :
                SetBaseFee(sender, v) =>
                  ~last'.ok /\ UNCHANGED <<pool, lps, bank>>
          /\ \A p \in SlipArgs :
                SetSlipParams(sender, p[1], p[2]) =>
                  ~last'.ok /\ UNCHANGED <<pool, lps, bank>>
          /\ \A addr \in Users : \A amt \in LpAmounts(addr) :
                SIWithdraw(sender, addr, amt) =>
                  ~last'.ok /\ UNCHANGED <<pool, lps, bank>>
     /\ (pool.asset0 # "" /\ FeeParams(pool') # FeeParams(pool)) =>
          /\ last'.ok
          /\ last'.op \in {"set_base_fee", "set_slip_params"}
          /\ \/ \E v \in FeeArgs : SetBaseFee("system:consensus", v)
             \/ \E p \in SlipArgs :
                  SetSlipParams("system:consensus", p[1], p[2])
     /\ \A addr \in Users :
          (last'.op = "si_withdraw" /\ lps'[addr] < lps[addr]) =>
            \E amt \in LpAmounts(addr) :
              SIWithdraw("system:consensus", addr, amt)]_vars


====
